---- MODULE Spec2Model ----
(***************************************************************************)
(* awScout: the concurrent collectors of package services, the retry loop  *)
(* around a detail call, the pipeline of cmd/main.go, the formatters of    *)
(* package formatting and the matcher of package pattern.  Each part has a *)
(* specification of its own (Spec, SpecCtx and SpecSageMaker, SpecRetry    *)
(* and SpecRetryCtx, SpecPipeline, SpecFormat, SpecMatcher, SpecLambda,    *)
(* SpecEMR) that holds the variables of the other parts at their idle      *)
(* values.                                                                 *)
(*                                                                         *)
(* Every collector pages through a listing, hands each listed item to a    *)
(* worker, fetches the item's detail and appends one entry to a slice that *)
(* a mutex protects.  The repository has three shapes of collector:        *)
(*                                                                         *)
(*   job channel   FetchInstances (also FetchStackSets, FetchGlueJobs) and *)
(*                 FetchLaunchTemplates: `threads` workers range over a    *)
(*                 channel of capacity `threads`, a feeder goroutine pages *)
(*                 and sends, errors travel on errChan (capacity 1);       *)
(*   semaphore     FetchStacks and FetchSageMakerProcessingJobs: the       *)
(*                 caller pages, takes a semaphore slot and then starts    *)
(*                 one goroutine per item; the latter counts the jobs it   *)
(*                 lists and the entries it appends, and has a             *)
(*                 specification of its own, SpecSageMaker;                *)
(*   goroutine     FetchCodeBuildProjects (also FetchLambdaFunctions): the *)
(*   per item      caller pages and starts one goroutine per item, which   *)
(*                 takes the semaphore slot itself.                        *)
(*                                                                         *)
(* The listing holds nItems occurrences 1..nItems, PageSize to a page; the *)
(* occurrence i carries the ref RefOf(i), so a listing longer than MaxRefs *)
(* repeats a ref.  The detail fetch fails for the refs in `failing`, the   *)
(* listing fails on page errPage (0: on none).  A launch template is       *)
(* listed with one page of versions holding one version, whose user data   *)
(* cannot be decoded for the refs in `undecodable`.                        *)
(***************************************************************************)
EXTENDS Naturals, Sequences, FiniteSets, TLC

\* Bounds of the model.
MaxItems == 3
MaxThreads == 3
PageSize == 2
MaxRefs == 2

VARIABLES
    collector,   \* which collector runs
    threads,     \* its threads argument
    nItems,      \* number of occurrences the listing holds
    failing,     \* refs whose detail fetch fails
    undecodable, \* refs whose user data is no valid base64
    errPage,     \* page whose fetch fails, 0 for none
    cancelled,   \* ctx.Done() is closed
    page,        \* pages fetched so far
    idx,         \* next occurrence to hand off
    fpc,         \* feeder goroutine
    ferr,        \* error the feeder is about to send
    mpc,         \* the calling goroutine
    wpc,         \* worker goroutines
    witem,       \* occurrence a worker holds
    jobChan,     \* instanceChan / templateChan / stackSetChan / jobChan
    chanClosed,  \* close(jobChan) has run
    errChan,     \* errChan, capacity 1
    semaphore,   \* tokens in the semaphore channel
    mu,          \* holder of mu, 0 when unlocked
    results,     \* instances / templates / stacks / projects
    retErr,      \* returned error
    retVal,      \* returned slice
    pageFailed,  \* a NextPage call has returned an error
    pageReqs,    \* number of NextPage calls made
    handed,      \* occurrence -> number of hand-offs
    order,       \* occurrences in the order they were handed off
    fetched,     \* occurrence -> number of detail fetches started
    totalJobs,   \* totalJobs of FetchSageMakerProcessingJobs
    successfulJobs, \* successfulJobs of FetchSageMakerProcessingJobs
    \* the retry loop around one detail call
    outcomes,    \* attempt number -> what the service answers
    iRetry,      \* loop variable i of the retry loop
    rpc,         \* position of the retry loop
    err,         \* err of the latest attempt
    attempts,    \* calls made so far
    sleeps,      \* seconds slept, in order
    result,      \* how the retry loop ended
    \* the pipeline of cmd/main.go
    selectedServices, \* cfg.selectedServices
    broken,      \* resource types whose listing fails
    ppc,         \* position of run / processServices
    collected,   \* resource types whose collector returned without error
    reported,    \* resource types matched and reported
    runErr,      \* error returned to main, "nil" when none
    step,        \* index of the resource type the pipeline is at
    cfgThreads,  \* cfg.Threads
    cfgMatchMode, \* cfg.MatchMode
    configErr,   \* LoadPatterns or loadAWSConfig fails
    passedThreads, \* threads arguments the collectors were called with
    passedModes, \* matchMode arguments the Process functions were called with
    \* the formatters of package formatting
    match,       \* the string handed to the formatter
    showContent, \* the show flag
    patternName, \* the key of the map handed to FuncCodeDetails
    emitted,     \* what the formatter prints after its label
    emittedPattern, \* what FuncCodeDetails prints after "Pattern: "
    stackSet,    \* the stack set handed to ProcessCloudFormation
    printed,     \* the lines ProcessCloudFormation prints
    fmtpc,       \* which formatter has run
    \* package pattern
    patternStrings, \* the decoded pattern file, "unparseable" when it is none
    userInput,   \* the text handed to MatchPatterns
    matchMode,   \* the matchMode argument
    compiled,    \* p.Compiled
    matches,     \* the map MatchPatterns returned
    rematched,   \* the returned string MatchPatterns was run on again
    rematches,   \* the map that second run returned
    decodeErr,   \* the pattern file cannot be opened or decoded
    patpc,       \* position of the pattern run
    \* FetchLambdaFunctions
    lamThreads,  \* its threads argument
    lamVersions, \* number of versions every listed function has
    lamListErr,  \* the listing of the functions fails
    verErrPage,  \* function -> page of its version listing that fails, 0 for none
    getFails,    \* function -> versions whose GetFunction call fails
    lmpc,        \* the calling goroutine
    lpc,         \* function -> position of the goroutine started for it
    vpage,       \* function -> version pages fetched so far
    versions,    \* function -> the slice versions of its goroutine
    lamSemaphore, \* tokens in the semaphore channel
    lamMu,       \* 0, or the function whose goroutine holds mu
    functions,   \* the slice functions: entries <<function, version>>
    lamRetErr,   \* returned error
    lamRetVal,   \* returned slice
    \* FetchEMRClusters
    emrClusters, \* number of clusters the listing holds
    emrScripts,  \* the script paths of the bootstrap actions every cluster has
    failAt,      \* cluster -> which of its remote calls fails, 0 for none
    emrErrPage,  \* page of the cluster listing that fails, 0 for none
    epc,         \* position of FetchEMRClusters
    epage,       \* pages fetched so far
    eidx,        \* next cluster to process
    clusters,    \* the slice clusters
    emrRetErr,   \* returned error
    emrRetVal    \* returned slice

vars == <<collector, threads, nItems, failing, undecodable, errPage, cancelled, page, idx,
          fpc, ferr, mpc, wpc, witem, jobChan, chanClosed, errChan, semaphore,
          mu, results, retErr, retVal, pageFailed, pageReqs, handed, order,
          fetched, totalJobs, successfulJobs, outcomes, iRetry, rpc, err, attempts, sleeps, result,
          selectedServices, broken, ppc, collected, reported, runErr, step,
          cfgThreads, cfgMatchMode, configErr, passedThreads, passedModes,
          match, showContent, patternName, emitted, emittedPattern, stackSet,
          printed, fmtpc,
          patternStrings, userInput,
          matchMode, compiled, matches, rematched, rematches,
      decodeErr, patpc, lamThreads, lamVersions, lamListErr, verErrPage, getFails,
      lmpc, lpc, vpage, versions, lamSemaphore, lamMu, functions, lamRetErr, lamRetVal,
      emrClusters, emrScripts, failAt, emrErrPage, epc, epage, eidx, clusters,
      emrRetErr, emrRetVal>>

config == <<collector, threads, nItems, failing, undecodable, errPage>>

\* The variables of the collectors.
collectorVars ==
    <<config, cancelled, page, idx, fpc, ferr, mpc, wpc, witem, jobChan,
      chanClosed, errChan, semaphore, mu, results, retErr, retVal, pageFailed,
      pageReqs, handed, order, fetched, totalJobs, successfulJobs>>

\* The counters FetchSageMakerProcessingJobs prints before it returns.
counters == <<totalJobs, successfulJobs>>

retryVars == <<outcomes, iRetry, rpc, err, attempts, sleeps, result>>

\* What main reads once and never changes.
pipelineConfig == <<cfgThreads, cfgMatchMode, configErr, selectedServices, broken>>

pipelineVars ==
    <<pipelineConfig, ppc, collected, reported, runErr, step, passedThreads, passedModes>>

formatVars ==
    <<match, showContent, patternName, emitted, emittedPattern, stackSet, printed, fmtpc>>

matcherVars ==
    <<patternStrings, userInput, matchMode, compiled, matches, rematched, rematches,
      decodeErr, patpc>>

lambdaConfig == <<lamThreads, lamVersions, lamListErr, verErrPage, getFails>>

lambdaVars ==
    <<lambdaConfig, lmpc, lpc, vpage, versions, lamSemaphore, lamMu, functions, lamRetErr,
      lamRetVal>>

\* The collectors that are modelled with what they do for one listed item.
emrConfig == <<emrClusters, emrScripts, failAt, emrErrPage>>

emrVars == <<emrConfig, epc, epage, eidx, clusters, emrRetErr, emrRetVal>>

serviceVars == <<lambdaVars, emrVars>>

\* What a collector leaves alone.
others == <<retryVars, pipelineVars, formatVars, matcherVars, serviceVars>>

Collectors ==
    {"FetchInstances", "FetchLaunchTemplates", "FetchStacks", "FetchCodeBuildProjects"}

Max(a, b) == IF a >= b THEN a ELSE b
Min(a, b) == IF a <= b THEN a ELSE b

Refs == 1..MaxRefs
Items == 1..MaxItems
Workers == 1..Max(MaxItems, MaxThreads)

\* The ref the listing yields at occurrence i.
RefOf(i) == ((i - 1) % MaxRefs) + 1

\* Pagination: at least one page is always requested.
NumPagesOf(n) == IF n = 0 THEN 1 ELSE (n + PageSize - 1) \div PageSize
NumPages == NumPagesOf(nItems)
LastOf(p) == Min(p * PageSize, nItems)
HasMorePages == page < NumPages

\* The shapes.
UsesJobChan(c) == c \in {"FetchInstances", "FetchLaunchTemplates"}
AcquiresBeforeGo(c) == c \in {"FetchStacks", "FetchSageMakerProcessingJobs"}

\* FetchSageMakerProcessingJobs alone counts its jobs.
Counts(c) == c = "FetchSageMakerProcessingJobs"

\* Variant: an increment of successfulJobs is lost.
IncrementedLost(n) == IF n >= 1 THEN n ELSE n + 1

\* successfulJobs++
Incremented(n) == n + 1

\* Variant: every collector treats a failed detail fetch as fatal.
WorkerErrFatalAlways(c) == TRUE

\* A failed detail fetch ends the whole call only in FetchLaunchTemplates,
\* whose worker sends the error on errChan and returns.
WorkerErrFatal(c) == c = "FetchLaunchTemplates"

\* Variant: the semaphore is made one slot too large.
SemCapOffByOne == threads + 1

\* make(chan T, threads): the job channel, the semaphore; the worker loop bound.
ChanCap == threads
SemCap == threads
NumWorkers == threads

\* NextPage(ctx) and the detail call fail on their own or with a done context.
NextPageFails(p) == p = errPage \/ cancelled
FetchFails(i) == RefOf(i) \in failing \/ cancelled

\* The collector whose worker skips a version with undecodable user data
\* although a failed call is fatal to it.  (In FetchInstances the skip has
\* the outcome of a failed call and is among the refs of `failing`.)
DecodesUserData(c) == c = "FetchLaunchTemplates"

\* userDataBytes, err := base64.StdEncoding.DecodeString(userDataEncoded) has
\* err != nil
DecodeFails(i) == DecodesUserData(collector) /\ RefOf(i) \in undecodable

\* Variant: the error is returned together with what was collected so far.
ErrResultPartial == results

\* `return nil, err`
ErrResult == << >>

\* Variant: the append is not guarded, Lock never blocks.
MuFreeAlways == TRUE

\* mu.Lock() blocks while another goroutine holds mu.
MuFree == mu = 0

\* Variant: the caller does not wait for the workers.
WgZeroNoWait == TRUE

\* wg.Wait() returns once every started goroutine has called wg.Done().
WgZero == \A w \in Workers : wpc[w] \in {"none", "done"}

\* Variant: a receive leaves the job in the channel.
ReceivedPeek(ch) == ch

\* `for x := range ch` takes the head of the channel's buffer.
Received(ch) == Tail(ch)

\* Variant: the entry replaces the slice instead of being appended to it.
AppendedOverwrite(w) == <<witem[w]>>

\* Variant: an entry is appended only when no entry of the same ref is held.
AppendedDedup(w) ==
    IF \E k \in 1..Len(results) : RefOf(results[k]) = RefOf(witem[w])
      THEN results
      ELSE Append(results, witem[w])

\* append(instances, InstanceData{...})
Appended(w) == Append(results, witem[w])

Bump(f, i) == [f EXCEPT ![i] = @ + 1]

\* No retry loop is running.
RetryIdle ==
    /\ outcomes = << >>
    /\ iRetry = 0
    /\ rpc = "idle"
    /\ err = "nil"
    /\ attempts = 0
    /\ sleeps = << >>
    /\ result = "pending"

\* The pipeline of cmd/main.go is not running.
PipelineIdle ==
    /\ selectedServices = {}
    /\ broken = {}
    /\ ppc = "idle"
    /\ collected = {}
    /\ reported = {}
    /\ runErr = "nil"
    /\ step = 0
    /\ cfgThreads = 0
    /\ cfgMatchMode = ""
    /\ configErr = FALSE
    /\ passedThreads = {}
    /\ passedModes = {}

\* No stack set has been handed to ProcessCloudFormation.
NoStackSet == [StackSetName |-> << >>, matches |-> << >>, Parameters |-> << >>]

\* No formatter is running.
FormatIdle ==
    /\ match = << >>
    /\ showContent = FALSE
    /\ patternName = << >>
    /\ emitted = << >>
    /\ emittedPattern = << >>
    /\ stackSet = NoStackSet
    /\ printed = << >>
    /\ fmtpc = "idle"

\* Package pattern is not running.
MatcherIdle ==
    /\ patternStrings = << >>
    /\ userInput = << >>
    /\ matchMode = ""
    /\ compiled = << >>
    /\ matches = << >>
    /\ rematched = << >>
    /\ rematches = << >>
    /\ decodeErr = FALSE
    /\ patpc = "idle"

\* The functions the listing yields, in listing order.
FunctionNames == <<"alpha", "beta">>

Functions == 1..Len(FunctionNames)

\* FetchLambdaFunctions is not running.
LambdaIdle ==
    /\ lamThreads = 0
    /\ lamVersions = 0
    /\ lamListErr = FALSE
    /\ verErrPage = [f \in Functions |-> 0]
    /\ getFails = [f \in Functions |-> {}]
    /\ lmpc = "idle"
    /\ lpc = [f \in Functions |-> "none"]
    /\ vpage = [f \in Functions |-> 0]
    /\ versions = [f \in Functions |-> << >>]
    /\ lamSemaphore = 0
    /\ lamMu = 0
    /\ functions = << >>
    /\ lamRetErr = "pending"
    /\ lamRetVal = << >>

\* Largest number of clusters the listing holds.
MaxClusters == 2

\* FetchEMRClusters is not running.
EMRIdle ==
    /\ emrClusters = 0
    /\ emrScripts = << >>
    /\ failAt = [c \in 1..MaxClusters |-> 0]
    /\ emrErrPage = 0
    /\ epc = "idle"
    /\ epage = 0
    /\ eidx = 1
    /\ clusters = << >>
    /\ emrRetErr = "pending"
    /\ emrRetVal = << >>

ServicesIdle == LambdaIdle /\ EMRIdle

\* The state after the collector, one of cs, has set up its channels and
\* started its goroutines.
InitOf(cs) ==
    /\ collector \in cs
    /\ threads \in 0..MaxThreads
    /\ nItems \in 0..MaxItems
    /\ failing \in SUBSET Refs
    /\ undecodable \in (IF DecodesUserData(collector) THEN SUBSET (Refs \ failing) ELSE {{}})
    /\ errPage \in 0..NumPagesOf(nItems)
    /\ cancelled = FALSE
    /\ page = 0
    /\ idx = 1
    /\ fpc = IF UsesJobChan(collector) THEN "next" ELSE "none"
    /\ ferr = "nil"
    /\ mpc = IF UsesJobChan(collector) THEN "wait" ELSE "next"
    /\ wpc = [w \in Workers |->
                IF UsesJobChan(collector) /\ w <= NumWorkers THEN "recv" ELSE "none"]
    /\ witem = [w \in Workers |-> 0]
    /\ jobChan = << >>
    /\ chanClosed = FALSE
    /\ errChan = << >>
    /\ semaphore = 0
    /\ mu = 0
    /\ results = << >>
    /\ retErr = "pending"
    /\ retVal = << >>
    /\ pageFailed = FALSE
    /\ pageReqs = 0
    /\ handed = [k \in Items |-> 0]
    /\ order = << >>
    /\ fetched = [k \in Items |-> 0]
    /\ totalJobs = 0
    /\ successfulJobs = 0
    /\ RetryIdle
    /\ PipelineIdle
    /\ FormatIdle
    /\ MatcherIdle
    /\ ServicesIdle

Init == InitOf(Collectors)

(***************************************************************************)
(* The feeder goroutine of the job-channel collectors.                     *)
(***************************************************************************)

\* for paginator.HasMorePages() { page, err := paginator.NextPage(ctx) ... }
\* and, when the loop ends, the deferred close of the job channel.
FeederNextPage ==
    /\ fpc = "next"
    /\ IF ~HasMorePages
         THEN /\ chanClosed' = TRUE
              /\ fpc' = "done"
              /\ UNCHANGED <<page, ferr, pageFailed, pageReqs>>
         ELSE IF NextPageFails(page + 1)
           THEN /\ fpc' = "senderr"
                /\ ferr' = "page"
                /\ pageFailed' = TRUE
                /\ pageReqs' = pageReqs + 1
                /\ UNCHANGED <<page, chanClosed>>
           ELSE /\ page' = page + 1
                /\ fpc' = IF idx <= LastOf(page + 1) THEN "send" ELSE "next"
                /\ pageReqs' = pageReqs + 1
                /\ UNCHANGED <<ferr, pageFailed, chanClosed>>
    /\ UNCHANGED <<config, others, counters, cancelled, idx, mpc, wpc, witem, jobChan, errChan,
                   semaphore, mu, results, retErr, retVal, handed, order, fetched>>

\* Variant: the range loop over the page breaks after its first send.
FeederSendBreak ==
    /\ fpc = "send"
    /\ Len(jobChan) < ChanCap
    /\ jobChan' = Append(jobChan, idx)
    /\ handed' = Bump(handed, idx)
    /\ order' = Append(order, idx)
    /\ idx' = idx + 1
    /\ fpc' = "next"
    /\ UNCHANGED <<config, others, counters, cancelled, page, ferr, mpc, wpc, witem,
                   chanClosed, errChan, semaphore, mu, results, retErr, retVal,
                   pageFailed, pageReqs, fetched>>

\* select { case instanceChan <- instance: ... }
FeederSend ==
    /\ fpc = "send"
    /\ Len(jobChan) < ChanCap
    /\ jobChan' = Append(jobChan, idx)
    /\ handed' = Bump(handed, idx)
    /\ order' = Append(order, idx)
    /\ idx' = idx + 1
    /\ fpc' = IF idx + 1 <= LastOf(page) THEN "send" ELSE "next"
    /\ UNCHANGED <<config, others, counters, cancelled, page, ferr, mpc, wpc, witem, chanClosed,
                   errChan, semaphore, mu, results, retErr, retVal, pageFailed, pageReqs,
                   fetched>>

\* select { ... case <-ctx.Done(): errChan <- ctx.Err(); return }
FeederSendCancelled ==
    /\ fpc = "send"
    /\ cancelled
    /\ fpc' = "senderr"
    /\ ferr' = "ctx"
    /\ UNCHANGED <<config, others, counters, cancelled, page, idx, mpc, wpc, witem, jobChan,
                   chanClosed, errChan, semaphore, mu, results, retErr, retVal,
                   pageFailed, pageReqs, handed, order, fetched>>

\* Variant: the feeder sends the error and goes on paging.
FeederSendErrContinue ==
    /\ fpc = "senderr"
    /\ Len(errChan) < 1
    /\ errChan' = Append(errChan, ferr)
    /\ fpc' = "next"
    /\ UNCHANGED <<config, others, counters, cancelled, page, idx, ferr, mpc, wpc, witem,
                   jobChan, chanClosed, semaphore, mu, results, retErr, retVal,
                   pageFailed, pageReqs, handed, order, fetched>>

\* Variant: the feeder returns on its error without sending it.
FeederSendErrDropped ==
    /\ fpc = "senderr"
    /\ chanClosed' = TRUE
    /\ fpc' = "done"
    /\ UNCHANGED <<config, others, counters, cancelled, page, idx, ferr, mpc, wpc, witem, jobChan,
                   errChan, semaphore, mu, results, retErr, retVal, pageFailed, pageReqs,
                   handed, order, fetched>>

\* errChan <- err; return (and the deferred close).  The send blocks while
\* errChan already holds an error.
FeederSendErr ==
    /\ fpc = "senderr"
    /\ Len(errChan) < 1
    /\ errChan' = Append(errChan, ferr)
    /\ chanClosed' = TRUE
    /\ fpc' = "done"
    /\ UNCHANGED <<config, others, counters, cancelled, page, idx, ferr, mpc, wpc, witem, jobChan,
                   semaphore, mu, results, retErr, retVal, pageFailed, pageReqs, handed, order,
                   fetched>>

(***************************************************************************)
(* The workers.                                                            *)
(***************************************************************************)

\* A worker of the pool receives a job and starts the detail call.
WorkerRecv(w) ==
    /\ wpc[w] = "recv"
    /\ jobChan # << >>
    /\ witem' = [witem EXCEPT ![w] = Head(jobChan)]
    /\ fetched' = Bump(fetched, Head(jobChan))
    /\ jobChan' = Received(jobChan)
    /\ wpc' = [wpc EXCEPT ![w] = "fetch"]
    /\ UNCHANGED <<config, others, counters, cancelled, page, idx, fpc, ferr, mpc, chanClosed,
                   errChan, semaphore, mu, results, retErr, retVal, pageFailed, pageReqs,
                   handed, order>>

\* The range loop ends on a closed, drained channel; defer wg.Done().
WorkerExit(w) ==
    /\ wpc[w] = "recv"
    /\ jobChan = << >>
    /\ chanClosed
    /\ wpc' = [wpc EXCEPT ![w] = "done"]
    /\ UNCHANGED <<config, others, counters, cancelled, page, idx, fpc, ferr, mpc, witem, jobChan,
                   chanClosed, errChan, semaphore, mu, results, retErr, retVal,
                   pageFailed, pageReqs, handed, order, fetched>>

\* The goroutine FetchStacks started (it holds a semaphore slot) begins its call.
WorkerStart(w) ==
    /\ wpc[w] = "spawned"
    /\ wpc' = [wpc EXCEPT ![w] = "fetch"]
    /\ fetched' = Bump(fetched, witem[w])
    /\ UNCHANGED <<config, others, counters, cancelled, page, idx, fpc, ferr, mpc, witem, jobChan,
                   chanClosed, errChan, semaphore, mu, results, retErr, retVal,
                   pageFailed, pageReqs, handed, order>>

\* The goroutine FetchCodeBuildProjects started takes its slot:
\* semaphore <- struct{}{}
WorkerAcquire(w) ==
    /\ wpc[w] = "acquire"
    /\ semaphore < SemCap
    /\ semaphore' = semaphore + 1
    /\ wpc' = [wpc EXCEPT ![w] = "fetch"]
    /\ fetched' = Bump(fetched, witem[w])
    /\ UNCHANGED <<config, others, counters, cancelled, page, idx, fpc, ferr, mpc, witem, jobChan,
                   chanClosed, errChan, mu, results, retErr, retVal, pageFailed, pageReqs,
                   handed, order>>

\* What a worker does after its item: the pool's worker takes the next job, a
\* goroutine started for one item returns and runs its defers.
AfterItem == IF UsesJobChan(collector) THEN "recv" ELSE "release"

\* The detail call returns.  On an error the item is logged and skipped
\* (continue / return); in FetchLaunchTemplates the worker goes on to send it.
\* When the call succeeds and the user data cannot be decoded, the item is
\* logged and skipped (continue).
FetchReturn(w) ==
    /\ wpc[w] = "fetch"
    /\ IF FetchFails(witem[w])
         THEN IF WorkerErrFatal(collector)
                THEN wpc' = [wpc EXCEPT ![w] = "senderr"]
                ELSE wpc' = [wpc EXCEPT ![w] = AfterItem]
         ELSE IF DecodeFails(witem[w])
           THEN wpc' = [wpc EXCEPT ![w] = AfterItem]
           ELSE wpc' = [wpc EXCEPT ![w] = "lock"]
    /\ UNCHANGED <<config, others, counters, cancelled, page, idx, fpc, ferr, mpc, witem, jobChan,
                   chanClosed, errChan, semaphore, mu, results, retErr, retVal, pageFailed, pageReqs,
                   handed, order, fetched>>

\* errChan <- fmt.Errorf("failed to get launch template versions page"); return
WorkerSendErr(w) ==
    /\ wpc[w] = "senderr"
    /\ Len(errChan) < 1
    /\ errChan' = Append(errChan, "worker")
    /\ wpc' = [wpc EXCEPT ![w] = "done"]
    /\ UNCHANGED <<config, others, counters, cancelled, page, idx, fpc, ferr, mpc, witem, jobChan,
                   chanClosed, semaphore, mu, results, retErr, retVal,
                   pageFailed, pageReqs, handed, order, fetched>>

\* mu.Lock()
Lock(w) ==
    /\ wpc[w] = "lock"
    /\ MuFree
    /\ mu' = w
    /\ wpc' = [wpc EXCEPT ![w] = "locked"]
    /\ UNCHANGED <<config, others, counters, cancelled, page, idx, fpc, ferr, mpc, witem, jobChan,
                   chanClosed, errChan, semaphore, results, retErr, retVal,
                   pageFailed, pageReqs, handed, order, fetched>>

\* x = append(x, ...), under mu.
\* FetchSageMakerProcessingJobs has successfulJobs++ after it.
AppendResult(w) ==
    /\ wpc[w] = "locked"
    /\ results' = Appended(w)
    /\ wpc' = [wpc EXCEPT ![w] = "unlock"]
    /\ successfulJobs' = IF Counts(collector) THEN Incremented(successfulJobs)
                                              ELSE successfulJobs
    /\ UNCHANGED <<config, others, totalJobs, cancelled, page, idx, fpc, ferr, mpc, witem, jobChan,
                   chanClosed, errChan, semaphore, mu, retErr, retVal, pageFailed, pageReqs,
                   handed, order, fetched>>

\* Variant: the worker goes on without mu.Unlock().
UnlockSkipped(w) ==
    /\ wpc[w] = "unlock"
    /\ wpc' = [wpc EXCEPT ![w] = AfterItem]
    /\ UNCHANGED <<config, others, counters, cancelled, page, idx, fpc, ferr, mpc, witem, jobChan,
                   chanClosed, errChan, semaphore, mu, results, retErr, retVal,
                   pageFailed, pageReqs, handed, order, fetched>>

\* mu.Unlock()
Unlock(w) ==
    /\ wpc[w] = "unlock"
    /\ mu' = 0
    /\ wpc' = [wpc EXCEPT ![w] = AfterItem]
    /\ UNCHANGED <<config, others, counters, cancelled, page, idx, fpc, ferr, mpc, witem, jobChan,
                   chanClosed, errChan, semaphore, results, retErr, retVal,
                   pageFailed, pageReqs, handed, order, fetched>>

\* The goroutine started for one item returns: the deferred <-semaphore.
ReleaseSlot(w) ==
    /\ wpc[w] = "release"
    /\ semaphore' = semaphore - 1
    /\ wpc' = [wpc EXCEPT ![w] = "wgdone"]
    /\ UNCHANGED <<config, others, counters, cancelled, page, idx, fpc, ferr, mpc, witem, jobChan,
                   chanClosed, errChan, mu, results, retErr, retVal,
                   pageFailed, pageReqs, handed, order, fetched>>

\* ... and after it the deferred wg.Done().
WgDone(w) ==
    /\ wpc[w] = "wgdone"
    /\ wpc' = [wpc EXCEPT ![w] = "done"]
    /\ UNCHANGED <<config, others, counters, cancelled, page, idx, fpc, ferr, mpc, witem, jobChan,
                   chanClosed, errChan, semaphore, mu, results, retErr, retVal,
                   pageFailed, pageReqs, handed, order, fetched>>

(***************************************************************************)
(* The calling goroutine.                                                  *)
(***************************************************************************)

\* wg.Wait() of a job-channel collector.
MainWait ==
    /\ UsesJobChan(collector)
    /\ mpc = "wait"
    /\ WgZero
    /\ mpc' = "select"
    /\ UNCHANGED <<config, others, counters, cancelled, page, idx, fpc, ferr, wpc, witem, jobChan,
                   chanClosed, errChan, semaphore, mu, results, retErr, retVal,
                   pageFailed, pageReqs, handed, order, fetched>>

\* select { case err := <-errChan: return nil, err; default: return x, nil }
MainSelect ==
    /\ mpc = "select"
    /\ IF errChan # << >>
         THEN /\ retErr' = Head(errChan)
              /\ retVal' = ErrResult
              /\ errChan' = Tail(errChan)
         ELSE /\ retErr' = "nil"
              /\ retVal' = results
              /\ UNCHANGED errChan
    /\ mpc' = "returned"
    /\ UNCHANGED <<config, others, counters, cancelled, page, idx, fpc, ferr, wpc, witem, jobChan,
                   chanClosed, semaphore, mu, results, pageFailed, pageReqs, handed, order,
                   fetched>>

\* The caller's own paging loop (FetchStacks, FetchCodeBuildProjects):
\* a page error returns at once, without wg.Wait().
MainNextPage ==
    /\ mpc = "next"
    /\ IF ~HasMorePages
         THEN /\ mpc' = "wait"
              /\ UNCHANGED <<page, retErr, retVal, pageFailed, pageReqs>>
         ELSE IF NextPageFails(page + 1)
           THEN /\ mpc' = "returned"
                /\ retErr' = "page"
                /\ retVal' = ErrResult
                /\ pageFailed' = TRUE
                /\ pageReqs' = pageReqs + 1
                /\ UNCHANGED page
           ELSE /\ page' = page + 1
                /\ mpc' = IF idx <= LastOf(page + 1) THEN "spawn" ELSE "next"
                /\ pageReqs' = pageReqs + 1
                /\ UNCHANGED <<retErr, retVal, pageFailed>>
    /\ UNCHANGED <<config, others, counters, cancelled, idx, fpc, ferr, wpc, witem, jobChan,
                   chanClosed, errChan, semaphore, mu, results, handed, order, fetched>>

\* FetchStacks: wg.Add(1); semaphore <- struct{}{}; go func(summary) {...}
\* FetchSageMakerProcessingJobs has totalJobs++ between the last two.
MainAcquireGo ==
    /\ AcquiresBeforeGo(collector)
    /\ mpc = "spawn"
    /\ semaphore < SemCap
    /\ semaphore' = semaphore + 1
    /\ wpc' = [wpc EXCEPT ![idx] = "spawned"]
    /\ witem' = [witem EXCEPT ![idx] = idx]
    /\ handed' = Bump(handed, idx)
    /\ order' = Append(order, idx)
    /\ idx' = idx + 1
    /\ mpc' = IF idx + 1 <= LastOf(page) THEN "spawn" ELSE "next"
    /\ totalJobs' = IF Counts(collector) THEN totalJobs + 1 ELSE totalJobs
    /\ UNCHANGED <<config, others, successfulJobs, cancelled, page, fpc, ferr, jobChan, chanClosed,
                   errChan, mu, results, retErr, retVal, pageFailed, pageReqs, fetched>>

\* FetchCodeBuildProjects: wg.Add(1); go func(projectName) {...}
MainGo ==
    /\ ~AcquiresBeforeGo(collector)
    /\ mpc = "spawn"
    /\ wpc' = [wpc EXCEPT ![idx] = "acquire"]
    /\ witem' = [witem EXCEPT ![idx] = idx]
    /\ handed' = Bump(handed, idx)
    /\ order' = Append(order, idx)
    /\ idx' = idx + 1
    /\ mpc' = IF idx + 1 <= LastOf(page) THEN "spawn" ELSE "next"
    /\ UNCHANGED <<config, others, counters, cancelled, page, fpc, ferr, jobChan, chanClosed,
                   errChan, semaphore, mu, results, retErr, retVal, pageFailed, pageReqs,
                   fetched>>

\* wg.Wait(); return x, nil
MainWaitReturn ==
    /\ ~UsesJobChan(collector)
    /\ mpc = "wait"
    /\ WgZero
    /\ mpc' = "returned"
    /\ retErr' = "nil"
    /\ retVal' = results
    /\ UNCHANGED <<config, others, counters, cancelled, page, idx, fpc, ferr, wpc, witem, jobChan,
                   chanClosed, errChan, semaphore, mu, results, pageFailed, pageReqs,
                   handed, order, fetched>>

\* The caller's context is cancelled.
Cancel ==
    /\ ~cancelled
    /\ cancelled' = TRUE
    /\ UNCHANGED <<config, others, counters, page, idx, fpc, ferr, mpc, wpc, witem, jobChan,
                   chanClosed, errChan, semaphore, mu, results, retErr, retVal,
                   pageFailed, pageReqs, handed, order, fetched>>

Feeder == FeederNextPage \/ FeederSend \/ FeederSendErr

Worker(w) ==
    \/ WorkerRecv(w)
    \/ WorkerExit(w)
    \/ WorkerStart(w)
    \/ WorkerAcquire(w)
    \/ FetchReturn(w)
    \/ WorkerSendErr(w)
    \/ Lock(w)
    \/ AppendResult(w)
    \/ Unlock(w)
    \/ ReleaseSlot(w)
    \/ WgDone(w)

Main == MainWait \/ MainSelect \/ MainNextPage \/ MainAcquireGo \/ MainGo \/ MainWaitReturn

\* main.go calls every collector with context.TODO(), which is never cancelled.
Next == Feeder \/ Main \/ \E w \in Workers : Worker(w)

Spec == Init /\ [][Next]_vars

\* The collectors under a context the caller may cancel at any time.
NextCtx == Next \/ Cancel \/ FeederSendCancelled

SpecCtx == Init /\ [][NextCtx]_vars

\* The collectors whose worker skips an item that fails (every one but
\* FetchLaunchTemplates), under a context the caller may cancel at any time.
SkippingInit == InitOf({c \in Collectors : ~WorkerErrFatal(c)})

NextSkippingCtx ==
    \/ Feeder
    \/ FeederSendCancelled
    \/ Main
    \/ Cancel
    \/ \E w \in Workers :
          \/ WorkerRecv(w)
          \/ WorkerExit(w)
          \/ WorkerStart(w)
          \/ WorkerAcquire(w)
          \/ FetchReturn(w)
          \/ Lock(w)
          \/ AppendResult(w)
          \/ Unlock(w)
          \/ ReleaseSlot(w)
          \/ WgDone(w)

SpecSkippingCtx == SkippingInit /\ [][NextSkippingCtx]_vars

\* FetchSageMakerProcessingJobs, which has the shape of FetchStacks and
\* keeps the two counters.
SageMakerInit == InitOf({"FetchSageMakerProcessingJobs"})

NextSageMaker ==
    \/ MainNextPage
    \/ MainAcquireGo
    \/ MainWaitReturn
    \/ \E w \in Workers :
          \/ WorkerStart(w)
          \/ FetchReturn(w)
          \/ Lock(w)
          \/ AppendResult(w)
          \/ Unlock(w)
          \/ ReleaseSlot(w)
          \/ WgDone(w)

SpecSageMaker == SageMakerInit /\ [][NextSageMaker]_vars

(***************************************************************************)
(* The retry loop around one detail call: DescribeProcessingJob in         *)
(* FetchSageMakerProcessingJobs, ListSteps in fetchClusterSteps and        *)
(* ListBootstrapActions in fetchBootstrapActions.  The service answers the *)
(* n-th call with outcomes[n]; a call made under a cancelled context fails *)
(* with the context's error, which is no APIError, and a call that is      *)
(* under way when the context is cancelled returns either.                 *)
(***************************************************************************)

\* maxRetries := 5
maxRetries == 5

\* What the service can answer: success, the throttling error, another
\* API error.
Answers == {"ok", "ThrottlingException", "AccessDeniedException"}

\* No collector is running.
CollectorIdle ==
    /\ collector = "none"
    /\ threads = 0
    /\ nItems = 0
    /\ failing = {}
    /\ undecodable = {}
    /\ errPage = 0
    /\ cancelled = FALSE
    /\ page = 0
    /\ idx = 1
    /\ fpc = "none"
    /\ ferr = "nil"
    /\ mpc = "idle"
    /\ wpc = [w \in Workers |-> "none"]
    /\ witem = [w \in Workers |-> 0]
    /\ jobChan = << >>
    /\ chanClosed = FALSE
    /\ errChan = << >>
    /\ semaphore = 0
    /\ mu = 0
    /\ results = << >>
    /\ retErr = "pending"
    /\ retVal = << >>
    /\ pageFailed = FALSE
    /\ pageReqs = 0
    /\ handed = [k \in Items |-> 0]
    /\ order = << >>
    /\ fetched = [k \in Items |-> 0]
    /\ totalJobs = 0
    /\ successfulJobs = 0

RECURSIVE Pow2(_)
\* math.Pow(2, float64(i))
Pow2(n) == IF n = 0 THEN 1 ELSE 2 * Pow2(n - 1)

\* Variant: the backoff grows by one second per attempt.
WaitTimeLinear(n) == n + 1

\* waitTime := time.Duration(int(math.Pow(2, float64(i)))) * time.Second
WaitTime(n) == Pow2(n)

\* Variant: the loop condition admits one attempt more.
MoreAttemptsOffByOne == iRetry <= maxRetries

\* i < maxRetries
MoreAttempts == iRetry < maxRetries

\* Variant: every error is retried.
IsThrottlingAny(e) == TRUE

\* errors.As(err, &ae) && ae.ErrorCode() == "ThrottlingException"
IsThrottling(e) == e = "ThrottlingException"

\* The answer of the service to the n-th call.
Answer(n) == outcomes[Min(n, maxRetries)]

\* What the call under way can return.
Returns ==
    IF rpc = "failfast" THEN {"canceled"}
    ELSE IF cancelled THEN {Answer(attempts), "canceled"}
    ELSE {Answer(attempts)}

RetryInit ==
    /\ CollectorIdle
    /\ ServicesIdle
    /\ MatcherIdle
    /\ PipelineIdle
    /\ FormatIdle
    /\ outcomes \in [1..maxRetries -> Answers]
    /\ iRetry = 0
    /\ rpc = "loop"
    /\ err = "nil"
    /\ attempts = 0
    /\ sleeps = << >>
    /\ result = "pending"

\* for i := 0; i < maxRetries; i++ { jobDetail, err = client.Describe...(ctx, ...)
\* The call starts.
RetryCall ==
    /\ rpc = "loop"
    /\ MoreAttempts
    /\ attempts' = attempts + 1
    /\ rpc' = IF cancelled THEN "failfast" ELSE "call"
    /\ UNCHANGED <<collectorVars, serviceVars, pipelineVars, formatVars, matcherVars, outcomes, iRetry,
                   err, sleeps, result>>

\* Variant: no sleep follows the throttling error of the last attempt.
RetryReturnNoLastSleep ==
    /\ rpc \in {"call", "failfast"}
    /\ \E e \in Returns :
         IF e = "ok"
           THEN /\ err' = "nil"
                /\ rpc' = "done"
                /\ result' = "ok"
                /\ UNCHANGED <<sleeps, iRetry>>
           ELSE IF IsThrottling(e)
             THEN /\ err' = e
                  /\ IF iRetry + 1 < maxRetries
                       THEN /\ rpc' = "sleep"
                            /\ sleeps' = Append(sleeps, WaitTime(iRetry))
                            /\ UNCHANGED iRetry
                       ELSE /\ rpc' = "loop"
                            /\ iRetry' = iRetry + 1
                            /\ UNCHANGED sleeps
                  /\ UNCHANGED result
             ELSE /\ err' = e
                  /\ rpc' = "done"
                  /\ result' = "error"
                  /\ UNCHANGED <<sleeps, iRetry>>
    /\ UNCHANGED <<collectorVars, serviceVars, pipelineVars, formatVars, matcherVars, outcomes,
                   attempts>>

\* The call returns: break on success, time.Sleep(waitTime) starts on a
\* throttling error, print and return on any other error.
RetryReturn ==
    /\ rpc \in {"call", "failfast"}
    /\ \E e \in Returns :
         IF e = "ok"
           THEN /\ err' = "nil"
                /\ rpc' = "done"
                /\ result' = "ok"
                /\ UNCHANGED sleeps
           ELSE IF IsThrottling(e)
             THEN /\ err' = e
                  /\ rpc' = "sleep"
                  /\ sleeps' = Append(sleeps, WaitTime(iRetry))
                  /\ UNCHANGED result
             ELSE /\ err' = e
                  /\ rpc' = "done"
                  /\ result' = "error"
                  /\ UNCHANGED sleeps
    /\ UNCHANGED <<collectorVars, serviceVars, pipelineVars, formatVars, matcherVars, outcomes, iRetry,
                   attempts>>

\* time.Sleep returns; continue; i++
RetryWake ==
    /\ rpc = "sleep"
    /\ iRetry' = iRetry + 1
    /\ rpc' = "loop"
    /\ UNCHANGED <<collectorVars, serviceVars, pipelineVars, formatVars, matcherVars, outcomes, err,
                   attempts, sleeps, result>>

\* The loop condition fails: if err != nil { "Max retries reached"; return }
RetryExhausted ==
    /\ rpc = "loop"
    /\ ~MoreAttempts
    /\ rpc' = "done"
    /\ result' = IF err # "nil" THEN "maxretries" ELSE "ok"
    /\ UNCHANGED <<collectorVars, serviceVars, pipelineVars, formatVars, matcherVars, outcomes, iRetry,
                   err, attempts, sleeps>>

NextRetry == RetryCall \/ RetryReturn \/ RetryWake \/ RetryExhausted

\* The retry loop under context.TODO(), as main.go runs it.
SpecRetry == RetryInit /\ [][NextRetry]_vars

NextRetryCtx == NextRetry \/ Cancel

\* The retry loop under a context the caller may cancel at any time.
SpecRetryCtx == RetryInit /\ [][NextRetryCtx]_vars

(***************************************************************************)
(* cmd/main.go: processServices runs the selected services one after the   *)
(* other; each process<Service> function calls its collectors and hands    *)
(* what they return to the Process function that matches and reports.      *)
(***************************************************************************)

\* Largest number of resource types whose listing fails in one run.
MaxBroken == 1

\* The valid names of the -service flag after alias resolution.
Services ==
    {"ec2", "lambda", "cloudformation", "sagemaker", "codebuild", "glue", "emr", "all"}

\* The collectors in the order processServices reaches them.
ResourceTypes ==
    <<"Instances", "LaunchTemplates", "LambdaFunctions", "Stacks", "StackSets",
      "SageMakerProcessingJobs", "CodeBuildProjects", "GlueJobs", "EMRClusters">>

ServiceOf(t) ==
    CASE t \in {"Instances", "LaunchTemplates"} -> "ec2"
      [] t = "LambdaFunctions" -> "lambda"
      [] t \in {"Stacks", "StackSets"} -> "cloudformation"
      [] t = "SageMakerProcessingJobs" -> "sagemaker"
      [] t = "CodeBuildProjects" -> "codebuild"
      [] t = "GlueJobs" -> "glue"
      [] t = "EMRClusters" -> "emr"

\* selectedServices[constants.XService] || selectedServices[constants.AllServices]
Selected(svc) == svc \in selectedServices \/ "all" \in selectedServices

\* The resource types that the Process call following the fetch of t matches
\* and reports: ProcessCloudFormation takes stacks and stack sets together.
ProcessedAfter(t) ==
    CASE t = "Stacks" -> {}
      [] t = "StackSets" -> {"Stacks", "StackSets"}
      [] OTHER -> {t}

AtEnd == step > Len(ResourceTypes)

\* The values the -matchMode flag is given: the two modes MatchPatterns
\* knows and one it does not.
Modes == {"FindAllStringSubmatch", "MatchString", "FindString"}

PipelineInit ==
    /\ CollectorIdle
    /\ ServicesIdle
    /\ MatcherIdle
    /\ RetryIdle
    /\ FormatIdle
    /\ cfgThreads \in 0..MaxThreads
    /\ cfgMatchMode \in Modes
    /\ configErr \in BOOLEAN
    /\ selectedServices \in SUBSET Services
    /\ broken \in {b \in SUBSET {ResourceTypes[k] : k \in 1..Len(ResourceTypes)} :
                     Cardinality(b) <= MaxBroken}
    /\ ppc = "config"
    /\ collected = {}
    /\ reported = {}
    /\ runErr = "nil"
    /\ step = 1
    /\ passedThreads = {}
    /\ passedModes = {}

\* main: cfg := loadConfig(); LoadPatterns and loadAWSConfig, each with
\* `if err != nil { log.Printf(...); return }`; parseAndValidateServices.
\* No flag value is checked.
PipelineConfig ==
    /\ ppc = "config"
    /\ ppc' = IF configErr THEN "aborted" ELSE "fetch"
    /\ UNCHANGED <<collectorVars, serviceVars, retryVars, formatVars, matcherVars, pipelineConfig,
                   collected, reported, runErr, step, passedThreads, passedModes>>

\* if selectedServices[...] || selectedServices[AllServices] is false
PipelineSkip ==
    /\ ppc = "fetch"
    /\ ~AtEnd
    /\ ~Selected(ServiceOf(ResourceTypes[step]))
    /\ step' = step + 1
    /\ UNCHANGED <<collectorVars, serviceVars, retryVars, formatVars, matcherVars, pipelineConfig,
                   ppc, collected, reported, runErr, passedThreads, passedModes>>

\* x, err := services.FetchX(context.TODO(), client, cfg.Threads) with err == nil
PipelineFetch ==
    /\ ppc = "fetch"
    /\ ~AtEnd
    /\ Selected(ServiceOf(ResourceTypes[step]))
    /\ ResourceTypes[step] \notin broken
    /\ passedThreads' = passedThreads \cup {cfgThreads}
    /\ collected' = collected \cup {ResourceTypes[step]}
    /\ IF ProcessedAfter(ResourceTypes[step]) = {}
         THEN step' = step + 1 /\ UNCHANGED ppc
         ELSE ppc' = "process" /\ UNCHANGED step
    /\ UNCHANGED <<collectorVars, serviceVars, retryVars, formatVars, matcherVars, pipelineConfig,
                   reported, runErr, passedModes>>

\* if err != nil { return fmt.Errorf(...) } in process<Service>, and again
\* in processServices: return fmt.Errorf("error processing X: %w", err)
PipelineFetchErr ==
    /\ ppc = "fetch"
    /\ ~AtEnd
    /\ Selected(ServiceOf(ResourceTypes[step]))
    /\ ResourceTypes[step] \in broken
    /\ passedThreads' = passedThreads \cup {cfgThreads}
    /\ runErr' = ServiceOf(ResourceTypes[step])
    /\ ppc' = "returned"
    /\ UNCHANGED <<collectorVars, serviceVars, retryVars, formatVars, matcherVars, pipelineConfig,
                   collected, reported, step, passedModes>>

\* services.ProcessX(x, patternMatcher, cfg.ShowContent, cfg.MatchMode)
PipelineProcess ==
    /\ ppc = "process"
    /\ passedModes' = passedModes \cup {cfgMatchMode}
    /\ reported' = reported \cup ProcessedAfter(ResourceTypes[step])
    /\ step' = step + 1
    /\ ppc' = "fetch"
    /\ UNCHANGED <<collectorVars, serviceVars, retryVars, formatVars, matcherVars, pipelineConfig,
                   collected, runErr, passedThreads>>

\* return nil
PipelineReturn ==
    /\ ppc = "fetch"
    /\ AtEnd
    /\ ppc' = "returned"
    /\ UNCHANGED <<collectorVars, serviceVars, retryVars, formatVars, matcherVars, pipelineConfig,
                   collected, reported, runErr, step, passedThreads, passedModes>>

NextPipeline ==
    \/ PipelineConfig
    \/ PipelineSkip
    \/ PipelineFetch
    \/ PipelineFetchErr
    \/ PipelineProcess
    \/ PipelineReturn

SpecPipeline == PipelineInit /\ [][NextPipeline]_vars

(***************************************************************************)
(* Package formatting: Anonymize, Content, FuncCodeDetails and the         *)
(* functions that print their arguments as they are (Title, Data,          *)
(* PatterName, CloudformationParameter, LambdaFunctionData).  A string is  *)
(* the sequence of its bytes: a byte is held as the one-character string   *)
(* of its ASCII character and, when it has none that TLA+ can write, as    *)
(* the token "0xHH" of its value.                                          *)
(***************************************************************************)

\* Longest string over Alphabet that is handed to the formatters.
MaxShort == 5

\* Longest body of the long strings handed to the formatters.
MaxLong == 152

Alphabet == {"a", " ", "\f", "*"}

Letters == <<"a", "b", "c", "d", "e", "f", "g">>

\* strings.Repeat(c, n)
Repeat(c, n) == [k \in 1..n |-> c]

\* Every string over Alphabet of at most MaxShort bytes.
ShortStrings == UNION {[1..n -> Alphabet] : n \in 0..MaxShort}

\* n letters, lead spaces before them and trail spaces after them.
LongString(lead, n, trail) ==
    Repeat(" ", lead) \o [k \in 1..n |-> Letters[((k - 1) % Len(Letters)) + 1]]
        \o Repeat(" ", trail)

LongStrings == {LongString(lead, n, trail) : lead \in 0..1, n \in 0..MaxLong, trail \in 0..1}

\* The byte 0x0B, '\v' in Go.
VT == "0x0B"

\* White space outside the Alphabet: '\v', U+0085, U+00A0, U+2003 and U+3000.
Wide ==
    {<<VT>>, <<"0xC2", "0x85">>, <<"0xC2", "0xA0">>, <<"0xE2", "0x80", "0x83">>,
     <<"0xE3", "0x80", "0x80">>}

\* Text that is no white space: "a", "\u00e9a", "a\u00e9", and "a" between a
\* continuation byte and a lead byte that encode nothing.
Cores ==
    {<<"a">>, <<"0xC3", "0xA9", "a">>, <<"a", "0xC3", "0xA9">>, <<"0xA0", "a", "0xC2">>}

\* A core with white space of Wide, or none, before it and after it.
WideStrings ==
    {lead \o core \o trail : lead \in Wide \cup {<< >>}, core \in Cores,
                              trail \in Wide \cup {<< >>}}

\* The strings the formatters are applied to.
Inputs == ShortStrings \cup LongStrings \cup WideStrings

\* visibleChars := 4
visibleChars == 4

\* Variant: the commented-out return that keeps the total length.
AnonymizeFullLength(s) ==
    IF Len(s) <= visibleChars
      THEN Repeat("*", Len(s))
      ELSE SubSeq(s, 1, visibleChars) \o Repeat("*", Len(s) - visibleChars)

\* func Anonymize(s string) string
Anonymize(s) ==
    IF Len(s) <= visibleChars
      THEN Repeat("*", Len(s))
      ELSE SubSeq(s, 1, visibleChars) \o Repeat("*", 6)

\* Variant: the cut keeps 150 bytes before the ellipsis.
TruncateLate(s) ==
    IF Len(s) > 150 THEN SubSeq(s, 1, 150) \o <<".", ".", ".">> ELSE s

\* if len(content) > 150 { content = content[:147] + "..." }
Truncate(s) ==
    IF Len(s) > 150 THEN SubSeq(s, 1, 147) \o <<".", ".", ".">> ELSE s

\* The UTF-8 encodings of the runes unicode.IsSpace holds to be white space:
\* '\t', '\n', '\v', '\f', '\r', ' ', U+0085, U+00A0, U+1680, U+2000 to U+200A,
\* U+2028, U+2029, U+202F, U+205F and U+3000.
WhiteSpace ==
    {<<"\t">>, <<"\n">>, <<VT>>, <<"\f">>, <<"\r">>, <<" ">>,
     <<"0xC2", "0x85">>, <<"0xC2", "0xA0">>, <<"0xE1", "0x9A", "0x80">>,
     <<"0xE2", "0x81", "0x9F">>, <<"0xE3", "0x80", "0x80">>}
      \cup {<<"0xE2", "0x80", b>> :
               b \in {"0x80", "0x81", "0x82", "0x83", "0x84", "0x85", "0x86", "0x87",
                      "0x88", "0x89", "0x8A", "0xA8", "0xA9", "0xAF"}}

\* unicode.IsSpace(r), r given by the bytes that encode it
IsSpace(r) == r \in WhiteSpace

RECURSIVE TrimLeftFunc(_)
\* strings.TrimLeftFunc(s, unicode.IsSpace): the runes are decoded from the
\* front; a byte that starts no valid encoding is no white space.
TrimLeftFunc(s) ==
    LET ns == {n \in 1..Min(3, Len(s)) : IsSpace(SubSeq(s, 1, n))}
    IN  IF ns = {} THEN s
        ELSE TrimLeftFunc(SubSeq(s, (CHOOSE n \in ns : TRUE) + 1, Len(s)))

RECURSIVE TrimRightFunc(_)
\* strings.TrimRightFunc(s, unicode.IsSpace): the runes are decoded from the
\* back.
TrimRightFunc(s) ==
    LET ns == {n \in 1..Min(3, Len(s)) : IsSpace(SubSeq(s, Len(s) - n + 1, Len(s)))}
    IN  IF ns = {} THEN s
        ELSE TrimRightFunc(SubSeq(s, 1, Len(s) - (CHOOSE n \in ns : TRUE)))

\* strings.TrimSpace(s)
TrimSpace(s) == TrimRightFunc(TrimLeftFunc(s))

\* func Content(content string, show bool): what follows "Matched Data: "
Content(content, show) ==
    IF show
      THEN TrimSpace(Truncate(content))
      ELSE TrimSpace(Truncate(Anonymize(content)))

\* The body of FuncCodeDetails' inner loop: what follows "Matched Data:" for
\* one matched string.
MatchedData(m, show) ==
    IF show
      THEN TrimSpace(Truncate(m))
      ELSE TrimSpace(Truncate(Anonymize(m)))

\* func FuncCodeDetails(section, matches, showContent), for one key of the
\* map: the lines it prints, given by what follows their labels. The first is
\* patternNameColor.Printf("Pattern: %s\n", patternName), the key as it is
\* whatever the show flag; one "Matched Data:" line follows for each matched
\* string of the key. The section is not printed.
FuncCodeDetails(key, matchedStrings, show) ==
    <<key>> \o [k \in 1..Len(matchedStrings) |-> MatchedData(matchedStrings[k], show)]

\* matchEnvVariables: the key of a pattern that matched the name of an
\* environment variable.
\* fmt.Sprintf("Key Matched in env variable: %s (Pattern: %s)", key, patternName)
KeyMatched(name, pat) ==
    <<"K", "e", "y", " ", "M", "a", "t", "c", "h", "e", "d", " ", "i", "n", " ",
      "e", "n", "v", " ", "v", "a", "r", "i", "a", "b", "l", "e", ":", " ">>
        \o name \o <<" ", "(", "P", "a", "t", "t", "e", "r", "n", ":", " ">> \o pat \o <<")">>

\* matchEnvVariables: the key of a pattern that matched the value of an
\* environment variable.
\* fmt.Sprintf("Value of Key: %s (Pattern: %s)", key, patternName)
ValueOfKey(name, pat) ==
    <<"V", "a", "l", "u", "e", " ", "o", "f", " ", "K", "e", "y", ":", " ">>
        \o name \o <<" ", "(", "P", "a", "t", "t", "e", "r", "n", ":", " ">> \o pat \o <<")">>

\* The keys of the maps FuncCodeDetails is handed: the name of a pattern
\* (MatchPatterns), any text of the pattern file, white space at its ends
\* included, or a key of matchEnvVariables, which carries the name of the
\* environment variable, here "DB_PW" and a name of MaxLong letters.
Keys ==
    {<<"p">>, <<" ", "p", " ">>}
      \cup {ValueOfKey(<<"D", "B", "_", "P", "W">>, <<"p">>),
             KeyMatched(LongString(0, MaxLong, 0), <<"p">>)}

FormatInit ==
    /\ CollectorIdle
    /\ ServicesIdle
    /\ MatcherIdle
    /\ RetryIdle
    /\ PipelineIdle
    /\ match \in Inputs
    /\ showContent \in BOOLEAN
    /\ patternName \in Keys
    /\ emitted = << >>
    /\ emittedPattern = << >>
    /\ stackSet = NoStackSet
    /\ printed = << >>
    /\ fmtpc = "start"

CallAnonymize ==
    /\ fmtpc = "start"
    /\ emitted' = Anonymize(match)
    /\ fmtpc' = "Anonymize"
    /\ UNCHANGED <<collectorVars, serviceVars, retryVars, pipelineVars, matcherVars, match, showContent, patternName,
                   emittedPattern, stackSet, printed>>

CallContent ==
    /\ fmtpc = "start"
    /\ emitted' = Content(match, showContent)
    /\ fmtpc' = "Content"
    /\ UNCHANGED <<collectorVars, serviceVars, retryVars, pipelineVars, matcherVars, match, showContent, patternName,
                   emittedPattern, stackSet, printed>>

\* FuncCodeDetails on a map of one key, patternName, whose matched strings
\* are the one string match: the "Pattern: " line, then the "Matched Data:"
\* line.
CallFuncCodeDetails ==
    /\ fmtpc = "start"
    /\ LET lines == FuncCodeDetails(patternName, <<match>>, showContent)
       IN  /\ emittedPattern' = lines[1]
           /\ emitted' = lines[2]
    /\ fmtpc' = "FuncCodeDetails"
    /\ UNCHANGED <<collectorVars, serviceVars, retryVars, pipelineVars, matcherVars, match, showContent,
                   patternName, stackSet, printed>>

\* func Title(name string, resource string): what follows the label.
\* resourceNameColor.Printf("%s: %s\n", name, resource)
CallTitle ==
    /\ fmtpc = "start"
    /\ emitted' = match
    /\ fmtpc' = "Title"
    /\ UNCHANGED <<collectorVars, serviceVars, retryVars, pipelineVars, matcherVars, match, showContent, patternName,
                   emittedPattern, stackSet, printed>>

\* func Data(name string, data string): what follows the label.
\* detailsColor.Printf("%s: %s\n", name, data)
CallData ==
    /\ fmtpc = "start"
    /\ emitted' = match
    /\ fmtpc' = "Data"
    /\ UNCHANGED <<collectorVars, serviceVars, retryVars, pipelineVars, matcherVars, match, showContent, patternName,
                   emittedPattern, stackSet, printed>>

\* func PatterName(patternName string): what follows "Pattern: ".
CallPatterName ==
    /\ fmtpc = "start"
    /\ emitted' = match
    /\ fmtpc' = "PatterName"
    /\ UNCHANGED <<collectorVars, serviceVars, retryVars, pipelineVars, matcherVars, match, showContent, patternName,
                   emittedPattern, stackSet, printed>>

\* func CloudformationParameter(): "Parameters:" and nothing after it.
CallCloudformationParameter ==
    /\ fmtpc = "start"
    /\ emitted' = << >>
    /\ fmtpc' = "CloudformationParameter"
    /\ UNCHANGED <<collectorVars, serviceVars, retryVars, pipelineVars, matcherVars, match, showContent, patternName,
                   emittedPattern, stackSet, printed>>

\* The version strings LambdaFunctionData is given.
VersionStrings == {<<"1">>, <<"$", "L", "A", "T", "E", "S", "T">>}

\* func LambdaFunctionData(functionName string, version string): what follows
\* "Lambda Function: " in Printf("Lambda Function: %s (Version: %s)\n", ...)
LambdaFunctionData(functionName, version) ==
    functionName \o <<" ", "(", "V", "e", "r", "s", "i", "o", "n", ":", " ">> \o version
        \o <<")">>

CallLambdaFunctionData ==
    /\ fmtpc = "start"
    /\ \E version \in VersionStrings : emitted' = LambdaFunctionData(match, version)
    /\ fmtpc' = "LambdaFunctionData"
    /\ UNCHANGED <<collectorVars, serviceVars, retryVars, pipelineVars, matcherVars, match, showContent, patternName,
                   emittedPattern, stackSet, printed>>

\* The parameters of a stack set: none, one whose value is longer than
\* visibleChars, or that one followed by a short one.
ParameterLists ==
    LET DBPassword ==
            [ParameterKey |-> <<"D", "B", "P", "a", "s", "s", "w", "o", "r", "d">>,
             ParameterValue |-> <<"h", "u", "n", "t", "e", "r", "2">>]
        Env == [ParameterKey |-> <<"E", "n", "v">>, ParameterValue |-> <<"q", "a">>]
    IN  {<< >>, <<DBPassword>>, <<DBPassword, Env>>}

\* The stack sets ProcessCloudFormation is handed, each with the result of
\* MatchPatterns on its template: no match, or the matched string `match`
\* under the key patternName.
StackSetData ==
    {[StackSetName |-> <<"S", "S">>, matches |-> ms, Parameters |-> ps] :
        ms \in {<< >>, <<[patternName |-> patternName, matchedStrings |-> <<match>>]>>},
        ps \in ParameterLists}

\* The second loop of ProcessCloudFormation on one stack set whose template
\* gave at most one key of matches: the lines it prints, each given by the
\* text of its format that precedes the first argument taken from the
\* resource and by what the arguments put after it.
\*   formatting.Title("CloudFormation Stack Set", stackSet.StackSetName)
\*   formatting.PatterName(patternName); formatting.Content(match, showContent)
\*   fmt.Println("Parameters:")
\*   fmt.Printf("  %s: %s\n", aws.ToString(param.ParameterKey), aws.ToString(param.ParameterValue))
\*   fmt.Println()
\* Nothing is printed for a stack set whose template did not match; the
\* show flag reaches Content only.
StackSetLines(ss, show) ==
    LET Line(label, text) == [label |-> label, text |-> text]
        strs == IF Len(ss.matches) > 0 THEN ss.matches[1].matchedStrings ELSE << >>
        MatchLines ==
            [k \in 1..(2 * Len(strs)) |->
                IF k % 2 = 1
                  THEN Line("Pattern: ", ss.matches[1].patternName)
                  ELSE Line("Matched Data: ", Content(strs[k \div 2], show))]
        ParameterLines ==
            [k \in 1..Len(ss.Parameters) |->
                Line("  ", ss.Parameters[k].ParameterKey \o <<":", " ">>
                             \o ss.Parameters[k].ParameterValue)]
    IN  IF Len(ss.matches) > 0
          THEN <<Line("CloudFormation Stack Set: ", ss.StackSetName)>>
                 \o MatchLines
                 \o (IF Len(ss.Parameters) # 0
                       THEN <<Line("Parameters:", << >>)>> \o ParameterLines
                       ELSE << >>)
                 \o <<Line("", << >>)>>
          ELSE << >>

\* ProcessCloudFormation on one stack set: the body of its second loop.
ProcessCloudFormationStackSet ==
    /\ fmtpc = "start"
    /\ \E ss \in StackSetData :
          /\ stackSet' = ss
          /\ printed' = StackSetLines(ss, showContent)
    /\ fmtpc' = "ProcessCloudFormation"
    /\ UNCHANGED <<collectorVars, serviceVars, retryVars, pipelineVars, matcherVars, match, showContent,
                   patternName, emitted, emittedPattern>>

NextFormat ==
    \/ CallAnonymize
    \/ CallContent
    \/ CallFuncCodeDetails
    \/ CallTitle
    \/ CallData
    \/ CallPatterName
    \/ CallCloudformationParameter
    \/ CallLambdaFunctionData
    \/ ProcessCloudFormationStackSet

SpecFormat == FormatInit /\ [][NextFormat]_vars

(***************************************************************************)
(* Package pattern: LoadPatterns, ValidatePassword and MatchPatterns.  A   *)
(* string is the sequence of its bytes.  The expressions are taken from a  *)
(* small family, and package regexp is modelled on that family: Compiles,  *)
(* MatchString, FindAll and SplitLines compute what regexp.Compile,        *)
(* Regexp.MatchString, Regexp.FindAllStringSubmatch (the full match of     *)
(* each occurrence) and Regexp.Split return for its members.               *)
(***************************************************************************)

\* Largest number of lines of a text handed to MatchPatterns.
MaxLines == 2

LF == "\n"
CR == "\r"

Upper == {"A", "B", "C", "D", "E", "F", "G", "H", "I", "J", "K", "L", "M", "N", "O", "P", "Q", "R", "S", "T", "U", "V", "W", "X", "Y", "Z"}
Lower == {"a", "b", "c", "d", "e", "f", "g", "h", "i", "j", "k", "l", "m", "n", "o", "p", "q", "r", "s", "t", "u", "v", "w", "x", "y", "z"}
Digit == {"0", "1", "2", "3", "4", "5", "6", "7", "8", "9"}

\* strings.ContainsRune("!@#$%^&*", char)
Special == {"!", "@", "#", "$", "%", "^", "&", "*"}

PasswordPattern == "Password Pattern"

\* Variant: the fallback expression admits any eight bytes of a line.
FallbackPermissive == "^.{8,}$"

\* regexp.Compile(`^[A-Za-z\d]{8,}$`)
Fallback == "^[A-Za-z\\d]{8,}$"

\* An expression with a lookahead, which package regexp does not support.
Lookahead == "(?=.*[A-Z]).{8,}"

Exprs == {"AK", "AK.*", "a*", "^.{8,}$", Fallback, Lookahead}

\* The names a pattern file can hold and the expressions it gives them.
ExprsOf(name) ==
    CASE name = "AWS_Client" -> {"AK", "AK.*", Lookahead}
      [] name = PasswordPattern -> {"^.{8,}$", Lookahead}
      [] name = "Generic" -> {"a*"}

Names == {"AWS_Client", PasswordPattern, "Generic"}

\* The decoded pattern files.
PatternFiles ==
    UNION {{f \in [ns -> Exprs] : \A n \in ns : f[n] \in ExprsOf(n)} : ns \in SUBSET Names}

\* The lines the texts are made of.
LineSet ==
    {<< >>, <<"A", "K">>, <<"A", "K", "S", "3", "K", "e", "y">>, <<"i", "a", "m", ":", "P", "a", "s", "s", "R", "o", "l", "e", "A", "K">>,
     <<"A", "b", "c", "d", "1", "2", "3", "4", "!">>, <<"a", "b", "c", "d", "e", "f", "g", "h">>, <<"A", "b", "c", "d", "1", "2", "3", "4">>}

RECURSIVE Join(_, _)
\* The lines of ls with sep between them.
Join(ls, sep) ==
    IF Len(ls) = 1 THEN ls[1] ELSE ls[1] \o sep \o Join(Tail(ls), sep)

\* The texts handed to MatchPatterns: up to MaxLines lines, ended by LF
\* or by CRLF.
Texts ==
    {Join(ls, sep) : ls \in UNION {[1..n -> LineSet] : n \in 1..MaxLines},
                     sep \in {<<LF>>, <<CR, LF>>}}

\* regexp.Compile(patternStr) returns no error
Compiles(e) == e \in Exprs \ {Lookahead}

\* strings.Contains(s, w)
Contains(s, w) ==
    \E k \in 1..(Len(s) + 1) :
        k + Len(w) <= Len(s) + 1 /\ SubSeq(s, k, k + Len(w) - 1) = w

\* First position at or after pos where w occurs in s, 0 when there is none.
IndexFrom(s, w, pos) ==
    LET at == {k \in pos..(Len(s) + 1) :
                 k + Len(w) <= Len(s) + 1 /\ SubSeq(s, k, k + Len(w) - 1) = w}
    IN  IF at = {} THEN 0 ELSE CHOOSE k \in at : \A j \in at : k <= j

\* Number of bytes c that s holds in a row from pos on.
RunOf(s, c, pos) ==
    LET stops == {k \in pos..(Len(s) + 1) : k = Len(s) + 1 \/ s[k] # c}
    IN  (CHOOSE k \in stops : \A j \in stops : k <= j) - pos

\* Number of bytes other than LF that s holds in a row from pos on.
RunOfNot(s, pos) ==
    LET stops == {k \in pos..(Len(s) + 1) : k = Len(s) + 1 \/ s[k] = LF}
    IN  (CHOOSE k \in stops : \A j \in stops : k <= j) - pos

\* pattern.MatchString(s)
MatchString(e, s) ==
    CASE e = "AK" -> Contains(s, <<"A", "K">>)
      [] e = "AK.*" -> Contains(s, <<"A", "K">>)
      [] e = "a*" -> TRUE
      [] e = "^.{8,}$" -> Len(s) >= 8 /\ \A k \in 1..Len(s) : s[k] # LF
      [] e = Fallback ->
           Len(s) >= 8 /\ \A k \in 1..Len(s) : s[k] \in Upper \cup Lower \cup Digit

RECURSIVE FindLiteral(_, _, _)
\* The occurrences of the literal w in s from pos on, left to right, none
\* overlapping another.
FindLiteral(s, w, pos) ==
    LET k == IndexFrom(s, w, pos)
    IN  IF k = 0 THEN << >> ELSE <<w>> \o FindLiteral(s, w, k + Len(w))

RECURSIVE FindToLineEnd(_, _, _)
\* The occurrences of w.* in s from pos on: `.` matches every byte but LF.
FindToLineEnd(s, w, pos) ==
    LET k == IndexFrom(s, w, pos)
        stop == IF k = 0 THEN 0 ELSE k + RunOfNot(s, k)
    IN  IF k = 0 THEN << >>
        ELSE <<SubSeq(s, k, stop - 1)>> \o FindToLineEnd(s, w, stop)

RECURSIVE FindStar(_, _, _, _)
\* The occurrences of c* in s from pos on: an empty match is dropped when it
\* abuts the match before it (prevMatchEnd).
FindStar(s, c, pos, prevMatchEnd) ==
    IF pos > Len(s) + 1 THEN << >>
    ELSE LET r == RunOf(s, c, pos)
         IN  IF r = 0
               THEN (IF pos = prevMatchEnd THEN << >> ELSE << << >> >>)
                        \o FindStar(s, c, pos + 1, pos)
               ELSE <<SubSeq(s, pos, pos + r - 1)>> \o FindStar(s, c, pos + r, pos + r)

\* result[0] of every result of pattern.FindAllStringSubmatch(s, -1)
FindAll(e, s) ==
    CASE e = "AK" -> FindLiteral(s, <<"A", "K">>, 1)
      [] e = "AK.*" -> FindToLineEnd(s, <<"A", "K">>, 1)
      [] e = "a*" -> FindStar(s, "a", 1, 0)
      [] e \in {"^.{8,}$", Fallback} -> IF MatchString(e, s) THEN <<s>> ELSE << >>

RECURSIVE SplitLinesLF(_)
\* Variant: the text is split on LF alone.
SplitLinesLF(s) ==
    LET k == IndexFrom(s, <<LF>>, 1)
    IN  IF k = 0 THEN <<s>>
        ELSE <<SubSeq(s, 1, k - 1)>> \o SplitLinesLF(SubSeq(s, k + 1, Len(s)))

RECURSIVE SplitLines(_)
\* regexp.MustCompile(`\r?\n`).Split(userInput, -1)
SplitLines(s) ==
    LET k == IndexFrom(s, <<LF>>, 1)
    IN  IF k = 0 THEN <<s>>
        ELSE <<SubSeq(s, 1, IF k > 1 /\ s[k - 1] = CR THEN k - 2 ELSE k - 1)>>
                 \o SplitLines(SubSeq(s, k + 1, Len(s)))

\* Variant: an invalid expression drops the reserved name as every other.
LoadPatternsNoFallback(strs) ==
    [n \in {x \in DOMAIN strs : Compiles(strs[x])} |-> strs[n]]

\* func LoadPatterns: the compiled map of a decoded file.  A name whose
\* expression does not compile is skipped, the reserved name is given the
\* fallback expression instead.
LoadPatterns(strs) ==
    [n \in {x \in DOMAIN strs : Compiles(strs[x]) \/ x = PasswordPattern} |->
        IF Compiles(strs[n]) THEN strs[n] ELSE Fallback]

\* Variant: the special character is not required.
ValidatePasswordNoSpecial(c, password) ==
    /\ PasswordPattern \in DOMAIN c
    /\ MatchString(c[PasswordPattern], password)
    /\ \E k \in 1..Len(password) : password[k] \in Upper
    /\ \E k \in 1..Len(password) : password[k] \in Lower
    /\ \E k \in 1..Len(password) : password[k] \in Digit

\* func (p *Patterns) ValidatePassword(password string) bool, c being p.Compiled
ValidatePassword(c, password) ==
    /\ PasswordPattern \in DOMAIN c
    /\ MatchString(c[PasswordPattern], password)
    /\ \E k \in 1..Len(password) : password[k] \in Upper
    /\ \E k \in 1..Len(password) : password[k] \in Lower
    /\ \E k \in 1..Len(password) : password[k] \in Digit
    /\ \E k \in 1..Len(password) : password[k] \in Special

\* Variant: only the first word of the list disqualifies.
blocklistShort(name) ==
    IF name = "AWS_Client" THEN {<<"i", "a", "m", ":", "P", "a", "s", "s", "R", "o", "l", "e">>} ELSE {}

\* blocklist := map[string][]string{"AWS_Client": {"iam:PassRole", "S3Key"}}
blocklist(name) ==
    IF name = "AWS_Client"
      THEN {<<"i", "a", "m", ":", "P", "a", "s", "s", "R", "o", "l", "e">>,
            <<"S", "3", "K", "e", "y">>}
      ELSE {}

\* Variant: no candidate is ever blocked.
BlockedNever(name, x) == FALSE

\* blocked: strings.Contains(x, word) for some word of the pattern's list
Blocked(name, x) == \E word \in blocklist(name) : Contains(x, word)

\* Variant: the map starts with an empty list for every compiled pattern.
NewMatchesPrefilled(c) == [n \in DOMAIN c |-> << >>]

\* matches := make(map[string][]string)
NewMatches(c) == [n \in {} |-> << >>]

\* matches[name] = append(matches[name], x)
AppendTo(m, name, x) ==
    IF name \in DOMAIN m
      THEN [m EXCEPT ![name] = Append(@, x)]
      ELSE m @@ (name :> <<x>>)

RECURSIVE AppendAll(_, _, _)
AppendAll(m, name, xs) ==
    IF xs = << >> THEN m ELSE AppendAll(AppendTo(m, name, Head(xs)), name, Tail(xs))

\* The strings one pass of the loop body appends under name, in order.
Candidates(c, name, text, mode) ==
    IF name = PasswordPattern
      THEN SelectSeq(SplitLines(text), LAMBDA line : ValidatePassword(c, line))
    ELSE IF mode = "FindAllStringSubmatch"
      THEN SelectSeq(FindAll(c[name], text), LAMBDA x : ~Blocked(name, x))
    ELSE IF mode = "MatchString"
      THEN SelectSeq(SplitLines(text),
                     LAMBDA line : MatchString(c[name], line) /\ ~Blocked(name, line))
    ELSE << >>

RECURSIVE MatchOver(_, _, _, _, _)
\* for name, pattern := range p.Compiled { ... }
MatchOver(names, m, c, text, mode) ==
    IF names = {} THEN m
    ELSE LET name == CHOOSE n \in names : TRUE
         IN  MatchOver(names \ {name},
                       AppendAll(m, name, Candidates(c, name, text, mode)),
                       c, text, mode)

\* func (p *Patterns) MatchPatterns(userInput, matchMode), c being p.Compiled
MatchPatterns(c, text, mode) == MatchOver(DOMAIN c, NewMatches(c), c, text, mode)

MatcherInit ==
    /\ CollectorIdle
    /\ ServicesIdle
    /\ RetryIdle
    /\ PipelineIdle
    /\ FormatIdle
    /\ patternStrings \in PatternFiles
    /\ decodeErr \in BOOLEAN
    /\ userInput \in Texts
    /\ matchMode \in Modes
    /\ compiled = << >>
    /\ matches = << >>
    /\ rematched = << >>
    /\ rematches = << >>
    /\ patpc = "load"

\* patternMatcher, err := pattern.LoadPatterns(cfg.Search) with err != nil
LoadPatternsErr ==
    /\ patpc = "load"
    /\ decodeErr
    /\ patpc' = "failed"
    /\ UNCHANGED <<collectorVars, serviceVars, retryVars, pipelineVars, formatVars,
                   patternStrings, userInput, matchMode, compiled, matches,
                   rematched, rematches, decodeErr>>

\* patternMatcher, err := pattern.LoadPatterns(cfg.Search) with err == nil
LoadPatternsOk ==
    /\ patpc = "load"
    /\ ~decodeErr
    /\ compiled' = LoadPatterns(patternStrings)
    /\ patpc' = "match"
    /\ UNCHANGED <<collectorVars, serviceVars, retryVars, pipelineVars, formatVars,
                   patternStrings, userInput, matchMode, matches, rematched,
                   rematches, decodeErr>>

\* matches := patternMatcher.MatchPatterns(userData, matchMode)
CallMatchPatterns ==
    /\ patpc = "match"
    /\ matches' = MatchPatterns(compiled, userInput, matchMode)
    /\ patpc' = "matched"
    /\ UNCHANGED <<collectorVars, serviceVars, retryVars, pipelineVars, formatVars,
                   patternStrings, userInput, matchMode, compiled, rematched,
                   rematches, decodeErr>>

\* MatchPatterns is run again on one of the strings it returned.
Rematch ==
    /\ patpc = "matched"
    /\ \E n \in DOMAIN matches : \E k \in 1..Len(matches[n]) :
         /\ rematched' = <<n, matches[n][k]>>
         /\ rematches' = MatchPatterns(compiled, matches[n][k], matchMode)
    /\ patpc' = "rematched"
    /\ UNCHANGED <<collectorVars, serviceVars, retryVars, pipelineVars, formatVars,
                   patternStrings, userInput, matchMode, compiled, matches,
                   decodeErr>>

NextMatcher == LoadPatternsErr \/ LoadPatternsOk \/ CallMatchPatterns \/ Rematch

SpecMatcher == MatcherInit /\ [][NextMatcher]_vars

(***************************************************************************)
(* FetchLambdaFunctions, with what the goroutine of one function does: it  *)
(* takes a semaphore slot, pages through the versions of its function,     *)
(* reverses them and calls GetFunction for each, appending one entry per   *)
(* version under mu.  The listing of the functions is one page holding     *)
(* FunctionNames; a function has the versions 1..lamVersions, PageSize to  *)
(* a page.                                                                 *)
(***************************************************************************)

\* Largest number of versions of a function.
MaxVersions == 3

\* What a step of FetchLambdaFunctions leaves alone.
notLambda == <<collectorVars, retryVars, pipelineVars, formatVars, matcherVars, emrVars>>

\* The versions the n-th page of a version listing holds.
VersionPage(n) ==
    [k \in 1..(Min(n * PageSize, lamVersions) - (n - 1) * PageSize) |-> (n - 1) * PageSize + k]

\* reverseVersions(versions)
reverseVersions(vs) == [k \in 1..Len(vs) |-> vs[Len(vs) + 1 - k]]

LambdaInit ==
    /\ CollectorIdle
    /\ RetryIdle
    /\ PipelineIdle
    /\ FormatIdle
    /\ MatcherIdle
    /\ EMRIdle
    /\ lamThreads \in 1..MaxThreads
    /\ lamVersions \in 0..MaxVersions
    /\ lamListErr \in BOOLEAN
    /\ verErrPage \in [Functions -> 0..NumPagesOf(lamVersions)]
    /\ getFails \in [Functions -> SUBSET (1..lamVersions)]
    /\ lmpc = "next"
    /\ lpc = [f \in Functions |-> "none"]
    /\ vpage = [f \in Functions |-> 0]
    /\ versions = [f \in Functions |-> << >>]
    /\ lamSemaphore = 0
    /\ lamMu = 0
    /\ functions = << >>
    /\ lamRetErr = "pending"
    /\ lamRetVal = << >>

\* page, err := paginator.NextPage(ctx); if err != nil { return nil, err };
\* for _, function := range page.Functions { wg.Add(1); go func(function) {...} }
LambdaNextPage ==
    /\ lmpc = "next"
    /\ IF lamListErr
         THEN /\ lmpc' = "returned"
              /\ lamRetErr' = "page"
              /\ lamRetVal' = << >>
              /\ UNCHANGED lpc
         ELSE /\ lmpc' = "wait"
              /\ lpc' = [f \in Functions |-> "acquire"]
              /\ UNCHANGED <<lamRetErr, lamRetVal>>
    /\ UNCHANGED <<notLambda, lambdaConfig, vpage, versions, lamSemaphore, lamMu, functions>>

\* semaphore <- struct{}{}
LambdaAcquire(f) ==
    /\ lpc[f] = "acquire"
    /\ lamSemaphore < lamThreads
    /\ lamSemaphore' = lamSemaphore + 1
    /\ lpc' = [lpc EXCEPT ![f] = "list"]
    /\ UNCHANGED <<notLambda, lambdaConfig, lmpc, vpage, versions, lamMu, functions, lamRetErr,
                   lamRetVal>>

\* for versionPaginator.HasMorePages() { versionPage, err := versionPaginator.NextPage(ctx)
\* if err != nil { log; return }; versions = append(versions, versionPage.Versions...) }
\* and, after the last page, reverseVersions(versions).
LambdaListVersions(f) ==
    /\ lpc[f] = "list"
    /\ IF vpage[f] < NumPagesOf(lamVersions)
         THEN IF verErrPage[f] = vpage[f] + 1
                THEN /\ lpc' = [lpc EXCEPT ![f] = "release"]
                     /\ UNCHANGED <<vpage, versions>>
                ELSE /\ vpage' = [vpage EXCEPT ![f] = @ + 1]
                     /\ versions' = [versions EXCEPT ![f] = @ \o VersionPage(vpage[f] + 1)]
                     /\ UNCHANGED lpc
         ELSE /\ versions' = [versions EXCEPT ![f] = reverseVersions(@)]
              /\ lpc' = [lpc EXCEPT ![f] = "get"]
              /\ UNCHANGED vpage
    /\ UNCHANGED <<notLambda, lambdaConfig, lmpc, lamSemaphore, lamMu, functions, lamRetErr,
                   lamRetVal>>

\* Variant: a failed GetFunction call ends the goroutine (return for continue).
LambdaGetFunctionReturn(f) ==
    /\ lpc[f] = "get"
    /\ IF versions[f] = << >> \/ Head(versions[f]) \in getFails[f]
         THEN /\ lpc' = [lpc EXCEPT ![f] = "release"]
              /\ UNCHANGED versions
         ELSE /\ lpc' = [lpc EXCEPT ![f] = "download"]
              /\ UNCHANGED versions
    /\ UNCHANGED <<notLambda, lambdaConfig, lmpc, vpage, lamSemaphore, lamMu, functions,
                   lamRetErr, lamRetVal>>

\* for _, version := range versions { codeOutput, err := lambdaclient.GetFunction(...)
\* if err != nil { log; continue } ... }; the goroutine returns when the loop ends.
LambdaGetFunction(f) ==
    /\ lpc[f] = "get"
    /\ IF versions[f] = << >>
         THEN /\ lpc' = [lpc EXCEPT ![f] = "release"]
              /\ UNCHANGED versions
         ELSE IF Head(versions[f]) \in getFails[f]
           THEN /\ versions' = [versions EXCEPT ![f] = Tail(@)]
                /\ UNCHANGED lpc
           ELSE /\ lpc' = [lpc EXCEPT ![f] = "download"]
                /\ UNCHANGED versions
    /\ UNCHANGED <<notLambda, lambdaConfig, lmpc, vpage, lamSemaphore, lamMu, functions,
                   lamRetErr, lamRetVal>>

\* code := fetchAndDecodeCode(codeLocation): the download of the archive.  It
\* returns the code, or "" when it fails; the entry is appended either way.
LambdaFetchAndDecodeCode(f) ==
    /\ lpc[f] = "download"
    /\ lpc' = [lpc EXCEPT ![f] = "lock"]
    /\ UNCHANGED <<notLambda, lambdaConfig, lmpc, vpage, versions, lamSemaphore, lamMu,
                   functions, lamRetErr, lamRetVal>>

\* mu.Lock()
LambdaLock(f) ==
    /\ lpc[f] = "lock"
    /\ lamMu = 0
    /\ lamMu' = f
    /\ lpc' = [lpc EXCEPT ![f] = "locked"]
    /\ UNCHANGED <<notLambda, lambdaConfig, lmpc, vpage, versions, lamSemaphore, functions,
                   lamRetErr, lamRetVal>>

\* functions = append(functions, LambdaFunctionData{...})
LambdaAppend(f) ==
    /\ lpc[f] = "locked"
    /\ functions' = Append(functions, <<f, Head(versions[f])>>)
    /\ lpc' = [lpc EXCEPT ![f] = "unlock"]
    /\ UNCHANGED <<notLambda, lambdaConfig, lmpc, vpage, versions, lamSemaphore, lamMu,
                   lamRetErr, lamRetVal>>

\* mu.Unlock(), and the loop goes on to the next version.
LambdaUnlock(f) ==
    /\ lpc[f] = "unlock"
    /\ lamMu' = 0
    /\ versions' = [versions EXCEPT ![f] = Tail(@)]
    /\ lpc' = [lpc EXCEPT ![f] = "get"]
    /\ UNCHANGED <<notLambda, lambdaConfig, lmpc, vpage, lamSemaphore, functions, lamRetErr,
                   lamRetVal>>

\* The goroutine returns: the deferred func() { <-semaphore; wg.Done() }.
LambdaRelease(f) ==
    /\ lpc[f] = "release"
    /\ lamSemaphore' = lamSemaphore - 1
    /\ lpc' = [lpc EXCEPT ![f] = "wgdone"]
    /\ UNCHANGED <<notLambda, lambdaConfig, lmpc, vpage, versions, lamMu, functions, lamRetErr,
                   lamRetVal>>

LambdaWgDone(f) ==
    /\ lpc[f] = "wgdone"
    /\ lpc' = [lpc EXCEPT ![f] = "done"]
    /\ UNCHANGED <<notLambda, lambdaConfig, lmpc, vpage, versions, lamSemaphore, lamMu,
                   functions, lamRetErr, lamRetVal>>

\* wg.Wait(); return functions, nil
LambdaWaitReturn ==
    /\ lmpc = "wait"
    /\ \A f \in Functions : lpc[f] = "done"
    /\ lmpc' = "returned"
    /\ lamRetErr' = "nil"
    /\ lamRetVal' = functions
    /\ UNCHANGED <<notLambda, lambdaConfig, lpc, vpage, versions, lamSemaphore, lamMu,
                   functions>>

NextLambda ==
    \/ LambdaNextPage
    \/ LambdaWaitReturn
    \/ \E f \in Functions :
         \/ LambdaAcquire(f)
         \/ LambdaListVersions(f)
         \/ LambdaGetFunction(f)
         \/ LambdaFetchAndDecodeCode(f)
         \/ LambdaLock(f)
         \/ LambdaAppend(f)
         \/ LambdaUnlock(f)
         \/ LambdaRelease(f)
         \/ LambdaWgDone(f)

SpecLambda == LambdaInit /\ [][NextLambda]_vars

(***************************************************************************)
(* FetchEMRClusters: one goroutine pages through the clusters and, for     *)
(* each, lists its steps, lists its bootstrap actions and downloads the    *)
(* scripts of these that lie in S3.  Every cluster has the bootstrap       *)
(* actions emrScripts; of the remote calls made for cluster c (1: the step *)
(* listing, 2: the bootstrap-action listing, 2 + k: the download of script *)
(* k) the call failAt[c] fails.                                            *)
(***************************************************************************)

\* Largest number of bootstrap actions of a cluster.
MaxScripts == 2

\* Where a script path points: "s3" for an s3:// path, "local" for any other.
ScriptKinds == {"s3", "local"}

\* What a step of FetchEMRClusters leaves alone.
notEMR == <<collectorVars, retryVars, pipelineVars, formatVars, matcherVars, lambdaVars>>

\* steps, err := fetchClusterSteps(ctx, emrClient, *cluster.Id) has err != nil
fetchClusterStepsFails(c) == failAt[c] = 1

\* Variant: a script that cannot be downloaded is recorded as empty.
fetchBootstrapActionsLenient(c) ==
    IF failAt[c] = 2
      THEN [err |-> "bootstrap", scriptContents |-> << >>]
      ELSE [err |-> "nil",
            scriptContents |->
               [k \in 1..Len(emrScripts) |->
                  IF emrScripts[k] = "s3" /\ failAt[c] # 2 + k THEN "content" ELSE ""]]

\* func fetchBootstrapActions: the listing, then for every action with an
\* s3:// script path the download, whose error is returned; "" for any
\* other action.
fetchBootstrapActions(c) ==
    IF failAt[c] = 2
      THEN [err |-> "bootstrap", scriptContents |-> << >>]
    ELSE IF \E k \in 1..Len(emrScripts) : emrScripts[k] = "s3" /\ failAt[c] = 2 + k
      THEN [err |-> "script", scriptContents |-> << >>]
    ELSE [err |-> "nil",
          scriptContents |->
             [k \in 1..Len(emrScripts) |-> IF emrScripts[k] = "s3" THEN "content" ELSE ""]]

\* The last cluster of page p of the listing.
EMRLastOf(p) == Min(p * PageSize, emrClusters)

EMRInit ==
    /\ CollectorIdle
    /\ RetryIdle
    /\ PipelineIdle
    /\ FormatIdle
    /\ MatcherIdle
    /\ LambdaIdle
    /\ emrClusters \in 0..MaxClusters
    /\ emrScripts \in UNION {[1..n -> ScriptKinds] : n \in 0..MaxScripts}
    /\ failAt \in [1..MaxClusters -> 0..(2 + Len(emrScripts))]
    /\ \A c \in 1..MaxClusters : c > emrClusters => failAt[c] = 0
    /\ emrErrPage \in 0..NumPagesOf(emrClusters)
    /\ epc = "next"
    /\ epage = 0
    /\ eidx = 1
    /\ clusters = << >>
    /\ emrRetErr = "pending"
    /\ emrRetVal = << >>

\* for paginator.HasMorePages() { output, err := paginator.NextPage(ctx)
\* if err != nil { return nil, fmt.Errorf(...) } ... } return clusters, nil
EMRNextPage ==
    /\ epc = "next"
    /\ IF epage >= NumPagesOf(emrClusters)
         THEN /\ epc' = "returned"
              /\ emrRetErr' = "nil"
              /\ emrRetVal' = clusters
              /\ UNCHANGED epage
         ELSE IF emrErrPage = epage + 1
           THEN /\ epc' = "returned"
                /\ emrRetErr' = "page"
                /\ emrRetVal' = << >>
                /\ UNCHANGED epage
           ELSE /\ epage' = epage + 1
                /\ epc' = IF eidx <= EMRLastOf(epage + 1) THEN "cluster" ELSE "next"
                /\ UNCHANGED <<emrRetErr, emrRetVal>>
    /\ UNCHANGED <<notEMR, emrConfig, eidx, clusters>>

\* The body of `for _, cluster := range output.Clusters`: continue on an
\* error of fetchClusterSteps or fetchBootstrapActions, else
\* clusters = append(clusters, clusterData).
EMRCluster ==
    /\ epc = "cluster"
    /\ clusters' =
         IF fetchClusterStepsFails(eidx) \/ fetchBootstrapActions(eidx).err # "nil"
           THEN clusters
           ELSE Append(clusters,
                       [ClusterID |-> eidx,
                        BootstrapScriptContents |-> fetchBootstrapActions(eidx).scriptContents])
    /\ eidx' = eidx + 1
    /\ epc' = IF eidx + 1 <= EMRLastOf(epage) THEN "cluster" ELSE "next"
    /\ UNCHANGED <<notEMR, emrConfig, epage, emrRetErr, emrRetVal>>

NextEMR == EMRNextPage \/ EMRCluster

SpecEMR == EMRInit /\ [][NextEMR]_vars

(***************************************************************************)
(* Properties.                                                             *)
(***************************************************************************)

Returned == mpc = "returned"

\* Number of entries of seq that stem from occurrence i.
Count(seq, i) == Cardinality({k \in 1..Len(seq) : seq[k] = i})

Listed == 1..nItems

\* The occurrences whose detail fetch succeeds and yields an entry.
Survivors == {i \in Listed : RefOf(i) \notin failing /\ ~DecodeFails(i)}

\* Workers whose detail call has started and not yet returned.
InFlight == {w \in Workers : wpc[w] = "fetch"}

\* Refs handed off that no worker has started to fetch: jobs in the channel's
\* buffer and goroutines that have not begun their call.
Pending == Len(jobChan) + Cardinality({w \in Workers : wpc[w] \in {"spawned", "acquire"}})

\* Nothing can take a step any more.
Halted == ~ENABLED Next

\* C1: with threads >= 1, a listing that never fails and a detail fetch that
\* always succeeds, every collector runs to its return under every
\* interleaving, and returns a nil error with exactly one entry per listed
\* occurrence, nItems entries in all.
C1_AllItemsReturned ==
    (threads >= 1 /\ errPage = 0 /\ failing = {} /\ undecodable = {} /\ ~cancelled) =>
        /\ Halted => Returned
        /\ Returned =>
             /\ retErr = "nil"
             /\ Len(retVal) = nItems
             /\ \A i \in Listed : Count(retVal, i) = 1

C1_Witness ==
    /\ Returned
    /\ collector = "FetchInstances"
    /\ threads = 2
    /\ nItems >= 3
    /\ page >= 2
    /\ errPage = 0
    /\ failing = {}
    /\ retErr = "nil"
    /\ Len(retVal) = nItems
    /\ retVal[1] = 2

\* C2: with a detail fetch that fails exactly for the refs in `failing`, a
\* collector (FetchLaunchTemplates apart, see C8) runs to its return and
\* returns a nil error and one entry for each occurrence whose ref is outside
\* `failing`, nItems minus the failing occurrences in all; every listed
\* occurrence has had its fetch, whatever failed before it.
C2_FailuresSkipped ==
    (threads >= 1 /\ errPage = 0 /\ ~cancelled /\ collector # "FetchLaunchTemplates") =>
        /\ Halted => Returned
        /\ Returned =>
             /\ retErr = "nil"
             /\ Len(retVal) = nItems - Cardinality(Listed \ Survivors)
             /\ \A i \in Listed : Count(retVal, i) = (IF i \in Survivors THEN 1 ELSE 0)
             /\ \A i \in Listed : fetched[i] = 1

C2_Witness ==
    /\ Returned
    /\ collector = "FetchStacks"
    /\ threads >= 1
    /\ errPage = 0
    /\ nItems >= 3
    /\ failing = {2}
    /\ retErr = "nil"
    /\ Len(retVal) = nItems - 1
    /\ fetched[3] = 1

\* C3: when a page fetch of the listing has failed, the job-channel collectors
\* (FetchInstances, FetchStackSets, FetchGlueJobs) and the semaphore collectors
\* return that error and a nil slice, also when entries were already
\* collected; with a failing page the call always ends that way.
C3_PageErrorReturnsNil ==
    (threads >= 1 /\ collector # "FetchLaunchTemplates") =>
        /\ (Returned /\ pageFailed) => (retErr = "page" /\ retVal = << >>)
        /\ (Halted /\ errPage # 0 /\ ~cancelled) => (Returned /\ pageFailed)

C3_Witness ==
    /\ Returned
    /\ collector = "FetchInstances"
    /\ threads >= 1
    /\ pageFailed
    /\ errPage = 2
    /\ results # << >>
    /\ retErr = "page"
    /\ retVal = << >>

\* C4: in every reachable state the number of detail fetches in flight is at
\* most threads.
C4_InFlightBounded == Cardinality(InFlight) <= threads

C4_Witness ==
    /\ collector = "FetchCodeBuildProjects"
    /\ threads = 2
    /\ Cardinality(InFlight) = 2
    /\ \E w \in Workers : wpc[w] = "acquire"

\* C5: a worker is inside the append section only while it holds mu, so no
\* two workers are inside it at the same time.
C5_AppendUnderLock ==
    /\ \A w \in Workers : wpc[w] \in {"locked", "unlock"} => mu = w
    /\ Cardinality({w \in Workers : wpc[w] \in {"locked", "unlock"}}) <= 1

C5_Witness ==
    \E w, v \in Workers :
        /\ w # v
        /\ wpc[w] = "locked"
        /\ mu = w
        /\ wpc[v] = "lock"

\* C6: the worker that holds mu is inside the append section: it is not in a
\* remote call, and it has released mu before it takes its next job or exits.
C6_NoLockAcrossFetch ==
    \A w \in Workers : mu = w => wpc[w] \in {"locked", "unlock"}

C6_Witness ==
    \E w, v \in Workers :
        /\ mu = w
        /\ wpc[w] = "locked"
        /\ wpc[v] = "fetch"

\* C7: with threads >= 1, when a collector has returned a nil error every
\* page has been fetched, every occurrence handed off, no job is left in the
\* channel, every worker has exited, and every listed occurrence has had its
\* one fetch and either has its entry in the returned slice or failed.
C7_ReturnAfterDrain ==
    (Returned /\ retErr = "nil" /\ threads >= 1) =>
        /\ page = NumPages
        /\ idx = nItems + 1
        /\ jobChan = << >>
        /\ \A w \in Workers : wpc[w] \in {"none", "done"}
        /\ retVal = results
        /\ \A i \in Listed :
             /\ fetched[i] = 1
             /\ Count(retVal, i) <= 1
             /\ Count(retVal, i) = 0 => (FetchFails(i) \/ DecodeFails(i))
             /\ DecodeFails(i) => Count(retVal, i) = 0
             /\ RefOf(i) \in failing => Count(retVal, i) = 0

C7_Witness ==
    /\ Returned
    /\ retErr = "nil"
    /\ collector = "FetchCodeBuildProjects"
    /\ threads = 1
    /\ nItems >= 3
    /\ failing = {1}
    /\ retVal = <<2>>

\* C8 (the claim as stated): in FetchLaunchTemplates a template whose version
\* listing fails is skipped, and the call returns a nil error with the entries
\* of the other templates.
C8_LaunchTemplateFailureSkipped ==
    (Returned /\ collector = "FetchLaunchTemplates" /\ threads >= 1 /\ errPage = 0
        /\ ~cancelled) =>
        /\ retErr = "nil"
        /\ \A i \in Listed : Count(retVal, i) = (IF i \in Survivors THEN 1 ELSE 0)

\* C9 (the claim as stated): in every collector, with threads >= 1, the refs
\* handed off that no worker has started to fetch never exceed threads.
C9_Backpressure == threads >= 1 => Pending <= threads

\* C10: every occurrence the feeder has passed has been handed off exactly
\* once, the others not at all; an occurrence is fetched at most once, by one
\* worker, and has at most one entry.
C10_OneHandOffOneFetch ==
    \A i \in Items :
        /\ handed[i] = (IF i < idx THEN 1 ELSE 0)
        /\ fetched[i] <= handed[i]
        /\ Count(results, i) <= fetched[i]
        /\ Cardinality({w \in Workers :
              witem[w] = i /\ wpc[w] \in {"fetch", "lock", "locked", "senderr"}}) <= 1

C10_Witness ==
    /\ nItems >= 3
    /\ threads >= 2
    /\ collector = "FetchInstances"
    /\ \A i \in Listed : handed[i] = 1 /\ fetched[i] = 1
    /\ Len(results) = nItems
    /\ RefOf(1) = RefOf(3)

\* The retry loop can take no step any more.
RetryHalted == ~ENABLED NextRetry

\* The service throttles the first k calls and accepts call k + 1.
ThrottledThenOk(k) ==
    /\ \A n \in 1..k : outcomes[n] = "ThrottlingException"
    /\ outcomes[k + 1] = "ok"

\* C11: when the call is throttled exactly k times (0 <= k < 5) and then
\* succeeds, the retry loop makes k + 1 attempts and no more, sleeps exactly
\* k times, for 1, 2, 4, ... 2^(k-1) seconds in that order, and ends in
\* success.
C11_BackoffThenSuccess ==
    \A k \in 0..4 :
        ThrottledThenOk(k) =>
            /\ attempts <= k + 1
            /\ Len(sleeps) <= k
            /\ sleeps = SubSeq(<<1, 2, 4, 8>>, 1, Len(sleeps))
            /\ RetryHalted =>
                 /\ result = "ok"
                 /\ attempts = k + 1
                 /\ sleeps = SubSeq(<<1, 2, 4, 8>>, 1, k)

C11_Witness ==
    /\ ThrottledThenOk(3)
    /\ result = "ok"
    /\ attempts = 4
    /\ sleeps = <<1, 2, 4>>

\* Every call is answered with the throttling error.
AlwaysThrottled == \A n \in 1..maxRetries : outcomes[n] = "ThrottlingException"

\* C12: when every call is throttled, the retry loop makes exactly 5
\* attempts, never a sixth, and ends in the terminal failure of the item.
C12_FiveAttempts ==
    AlwaysThrottled =>
        /\ attempts <= 5
        /\ result \in {"pending", "maxretries"}
        /\ RetryHalted => (attempts = 5 /\ result = "maxretries")

C12_Witness ==
    /\ AlwaysThrottled
    /\ rpc = "done"
    /\ attempts = 5
    /\ result = "maxretries"

\* C13: an error other than the throttling error ends the retry loop at
\* once with the terminal failure of the item: the attempt that returned it
\* is the last one and no sleep follows it, however many throttled attempts
\* came before.
C13_OtherErrorIsTerminal ==
    err = "AccessDeniedException" =>
        /\ rpc = "done"
        /\ result = "error"
        /\ outcomes[attempts] = "AccessDeniedException"
        /\ \A n \in 1..(attempts - 1) : outcomes[n] = "ThrottlingException"
        /\ Len(sleeps) = attempts - 1
        /\ RetryHalted

C13_Witness ==
    /\ err = "AccessDeniedException"
    /\ attempts = 3
    /\ Len(sleeps) = 2
    /\ result = "error"

\* C14: once the context is cancelled no further ref is handed off, neither
\* to the job channel nor to a new goroutine: no step taken after the
\* cancellation extends the sequence of hand-offs.
C14_NoHandOffAfterCancel == [][cancelled => order' = order]_vars

\* C15: once the context is cancelled a worker inside the retry loop starts
\* no new attempt and no new backoff sleep: no step taken after the
\* cancellation starts a call or a sleep.
C15_NoRetryAfterCancel ==
    [][cancelled => (attempts' = attempts /\ sleeps' = sleeps)]_vars

\* The paging goroutine has seen a NextPage error or ctx.Done().
FeederObservedStop == pageFailed \/ ferr = "ctx"

\* C16: after the paging goroutine has observed a page-fetch error or the
\* cancellation, it makes no further NextPage call.
C16_NoPageAfterStop == [][FeederObservedStop => pageReqs' = pageReqs]_vars

C16_Witness ==
    /\ ferr = "ctx"
    /\ fpc = "done"
    /\ HasMorePages
    /\ pageReqs = page

\* C17: pages are requested one after the other and the refs of a page are
\* handed off in the order of the page: the hand-offs are the listing in its
\* order, no ref is handed off before its page has been fetched, and a page
\* is requested only after every ref of the pages before it has been handed
\* off.
C17_HandOffInListingOrder ==
    /\ order = [k \in 1..Len(order) |-> k]
    /\ Len(order) <= LastOf(page)
    /\ page >= 1 => Len(order) >= LastOf(page - 1)
    /\ pageReqs = page + (IF pageFailed THEN 1 ELSE 0)

C17_Witness ==
    /\ page = 2
    /\ order = <<1, 2, 3>>
    /\ Returned

\* The resource types of the services the -service flag selects.
SelectedTypes ==
    {ResourceTypes[k] : k \in {n \in 1..Len(ResourceTypes) : Selected(ServiceOf(ResourceTypes[n]))}}

\* C18: a listing error in one resource type ends the processing of that
\* type only: when processServices has returned, every other selected
\* resource type has been collected, matched and reported.
C18_OtherTypesStillProcessed ==
    ppc = "returned" =>
        \A t \in SelectedTypes \ broken : t \in collected /\ t \in reported

\* C19: Anonymize(s) is len(s) asterisks when len(s) <= 4; when len(s) > 4
\* it has length exactly 10, its first 4 bytes are the first 4 bytes of s and
\* its last 6 are asterisks, whatever the length of s.
C19_AnonymizeShape ==
    fmtpc = "Anonymize" =>
        /\ Len(match) <= 4 =>
             /\ Len(emitted) = Len(match)
             /\ \A k \in 1..Len(emitted) : emitted[k] = "*"
        /\ Len(match) > 4 =>
             /\ Len(emitted) = 10
             /\ \A k \in 1..4 : emitted[k] = match[k]
             /\ \A k \in 5..10 : emitted[k] = "*"

C19_Witness ==
    /\ fmtpc = "Anonymize"
    /\ Len(match) > 150
    /\ emitted = <<"a", "b", "c", "d", "*", "*", "*", "*", "*", "*">>

RECURSIVE AllSpace(_)
\* s is white space from end to end.
AllSpace(s) ==
    \/ s = << >>
    \/ \E n \in 1..Min(3, Len(s)) :
          IsSpace(SubSeq(s, 1, n)) /\ AllSpace(SubSeq(s, n + 1, Len(s)))

\* s has white space at one of its ends.
SpaceAtEnd(s) ==
    \E n \in 1..Min(3, Len(s)) :
        IsSpace(SubSeq(s, 1, n)) \/ IsSpace(SubSeq(s, Len(s) - n + 1, Len(s)))

\* b is a without the white space at its two ends.
UpToTrim(a, b) ==
    /\ ~SpaceAtEnd(b)
    /\ \E lo \in 1..(Len(a) + 1) :
         /\ lo + Len(b) <= Len(a) + 1
         /\ b = SubSeq(a, lo, lo + Len(b) - 1)
         /\ AllSpace(SubSeq(a, 1, lo - 1))
         /\ AllSpace(SubSeq(a, lo + Len(b), Len(a)))

\* The string the display shows: the match itself, or its redaction.
Shown == IF showContent THEN match ELSE Anonymize(match)

\* C20: Content and FuncCodeDetails, with show true or false, emit at most
\* 150 bytes per match: a shown string of at most 150 bytes is emitted as it
\* is, a longer one as its first 147 bytes followed by "...", in both cases
\* up to the trimming of the spaces at the ends; with show false the string
\* that is cut is the redacted one. The key FuncCodeDetails prints on the
\* "Pattern: " line before the match is no match string: it is emitted as it
\* is, neither cut nor trimmed nor redacted.
C20_EmittedAtMost150 ==
    /\ fmtpc \in {"Content", "FuncCodeDetails"} =>
          /\ Len(emitted) <= 150
          /\ Len(Shown) <= 150 => UpToTrim(Shown, emitted)
          /\ Len(Shown) > 150 =>
               UpToTrim(SubSeq(Shown, 1, 147) \o <<".", ".", ".">>, emitted)
    /\ fmtpc = "FuncCodeDetails" => emittedPattern = patternName

\* C20 as stated: a shown string of more than 150 bytes is emitted as
\* exactly its first 147 bytes followed by "...".
C20_LongEmittedUntrimmed ==
    fmtpc \in {"Content", "FuncCodeDetails"} =>
        /\ Len(emitted) <= 150
        /\ Len(Shown) <= 150 => UpToTrim(Shown, emitted)
        /\ Len(Shown) > 150 => emitted = SubSeq(Shown, 1, 147) \o <<".", ".", ".">>

C20_Witness ==
    /\ fmtpc = "FuncCodeDetails"
    /\ showContent
    /\ Len(patternName) > 150
    /\ emittedPattern = patternName
    /\ Len(match) = 151
    /\ match[1] # " "
    /\ Len(emitted) = 150
    /\ SubSeq(emitted, 147, 150) = <<match[147], ".", ".", ".">>

\* C26: a match mode other than "FindAllStringSubmatch" and "MatchString"
\* is rejected at configuration time: no Process function, and so no
\* MatchPatterns call, is ever handed another mode.
C26_ModeValidated ==
    \A m \in passedModes : m \in {"FindAllStringSubmatch", "MatchString"}

\* C27: a threads value below 1 is rejected: no collector is ever called
\* with threads < 1.
C27_ThreadsValidated == \A t \in passedThreads : t >= 1

\* MatchPatterns has returned.
Matched == patpc \in {"matched", "rematched"}

\* C21: for every pattern set, text and mode value, the returned map has no
\* key whose list is empty, and a compiled name is a key iff at least one of
\* its candidates survived.
C21_NoEmptyList ==
    Matched =>
        /\ \A n \in DOMAIN matches : matches[n] # << >>
        /\ DOMAIN matches \subseteq DOMAIN compiled
        /\ \A n \in DOMAIN compiled :
             n \in DOMAIN matches <=> Candidates(compiled, n, userInput, matchMode) # << >>
        /\ patpc = "rematched" => \A n \in DOMAIN rematches : rematches[n] # << >>

C21_Witness ==
    /\ patpc = "matched"
    /\ matchMode = "MatchString"
    /\ DOMAIN compiled = Names
    /\ DOMAIN matches = {"Generic"}

\* The substrings that disqualify a candidate of pattern n.
Disqualifying(n) ==
    IF n = "AWS_Client"
      THEN {<<"i", "a", "m", ":", "P", "a", "s", "s", "R", "o", "l", "e">>,
            <<"S", "3", "K", "e", "y">>}
      ELSE {}

Clean(n, x) == \A w \in Disqualifying(n) : ~Contains(x, w)

\* The candidates of the non-reserved pattern n before the exclusion list is
\* applied.
RawCandidates(n) ==
    IF matchMode = "FindAllStringSubmatch" THEN FindAll(compiled[n], userInput)
    ELSE IF matchMode = "MatchString"
      THEN SelectSeq(SplitLines(userInput), LAMBDA line : MatchString(compiled[n], line))
    ELSE << >>

\* C22: in both modes no string returned under a name with an exclusion
\* list contains a substring of that list; the candidates with such a
\* substring are dropped and the other candidates of the pattern are kept,
\* in their order.
C22_ExcludedDropped ==
    (Matched /\ matchMode \in {"FindAllStringSubmatch", "MatchString"}) =>
        /\ \A n \in DOMAIN matches : \A k \in 1..Len(matches[n]) : Clean(n, matches[n][k])
        /\ "AWS_Client" \in DOMAIN compiled =>
             LET kept == SelectSeq(RawCandidates("AWS_Client"),
                                   LAMBDA x : Clean("AWS_Client", x))
             IN  IF kept = << >> THEN "AWS_Client" \notin DOMAIN matches
                 ELSE /\ "AWS_Client" \in DOMAIN matches
                      /\ matches["AWS_Client"] = kept

C22_Witness ==
    /\ patpc = "matched"
    /\ "AWS_Client" \in DOMAIN matches
    /\ Len(RawCandidates("AWS_Client")) = 2
    /\ matches["AWS_Client"] = <<<<"A", "K">>>>

\* C23: running MatchPatterns again, with the same patterns and mode, on a
\* string it returned under the name n returns under n no string that
\* contains a disqualifying substring of n.
C23_RematchStaysClean ==
    patpc = "rematched" =>
        LET n == rematched[1]
        IN  n \in DOMAIN rematches =>
              \A k \in 1..Len(rematches[n]) : Clean(n, rematches[n][k])

C23_Witness ==
    /\ patpc = "rematched"
    /\ rematched[1] = "AWS_Client"
    /\ "AWS_Client" \in DOMAIN rematches
    /\ Contains(userInput, <<"S", "3", "K", "e", "y">>)

\* C24: MatchPatterns applied to the empty text returns an empty map, for
\* every pattern set and both modes.
C24_EmptyTextEmptyResult ==
    (Matched /\ userInput = << >>) => DOMAIN matches = {}

\* The positions of the line feeds of s.
LineFeeds(s) == {k \in 1..Len(s) : s[k] = LF}

\* The j-th line of s: what lies between two line feeds, without the
\* carriage return that precedes the closing line feed.
LineAt(s, j) ==
    LET nth(m) == CHOOSE k \in LineFeeds(s) :
                      Cardinality({x \in LineFeeds(s) : x <= k}) = m
        from == IF j = 1 THEN 1 ELSE nth(j - 1) + 1
        to == IF j = Cardinality(LineFeeds(s)) + 1 THEN Len(s)
              ELSE IF nth(j) > 1 /\ s[nth(j) - 1] = CR THEN nth(j) - 2
              ELSE nth(j) - 1
    IN  SubSeq(s, from, to)

\* The lines of s, split on LF or CRLF.
LinesOf(s) == [j \in 1..(Cardinality(LineFeeds(s)) + 1) |-> LineAt(s, j)]

\* C25: in line mode the list of every non-reserved pattern is exactly the
\* sequence, in text order, of the whole lines of the text in which the
\* pattern matches and which contain no disqualifying substring.
C25_LineModeWholeLines ==
    (Matched /\ matchMode = "MatchString") =>
        \A n \in DOMAIN compiled \ {PasswordPattern} :
            LET expected == SelectSeq(LinesOf(userInput),
                                LAMBDA line : MatchString(compiled[n], line) /\ Clean(n, line))
            IN  IF expected = << >> THEN n \notin DOMAIN matches
                ELSE n \in DOMAIN matches /\ matches[n] = expected

C25_Witness ==
    /\ patpc = "matched"
    /\ matchMode = "MatchString"
    /\ Contains(userInput, <<CR, LF>>)
    /\ "AWS_Client" \in DOMAIN matches
    /\ matches["AWS_Client"] = <<<<"A", "K">>, <<"A", "K">>>>

\* s holds a byte of the class.
Has(s, class) == \E k \in 1..Len(s) : s[k] \in class

\* The compound rule: the set holds the reserved pattern, its base
\* expression matches s, and s has an uppercase letter, a lowercase letter,
\* a digit and a byte of "!@#$%^&*".
Compound(s) ==
    /\ PasswordPattern \in DOMAIN compiled
    /\ MatchString(compiled[PasswordPattern], s)
    /\ Has(s, Upper) /\ Has(s, Lower) /\ Has(s, Digit)
    /\ Has(s, {"!", "@", "#", "$", "%", "^", "&", "*"})

\* C28: ValidatePassword(s) holds iff the compound rule holds for s; under
\* every mode the lines listed under the reserved name are exactly the lines
\* of the text for which it holds, so "abcdefgh" is never listed and
\* "Abcd1234!" is listed whenever the base expression matches it.
C28_PasswordCompound ==
    Matched =>
        /\ \A j \in 1..Len(LinesOf(userInput)) :
             ValidatePassword(compiled, LinesOf(userInput)[j]) <=> Compound(LinesOf(userInput)[j])
        /\ LET listed == IF PasswordPattern \in DOMAIN matches
                           THEN matches[PasswordPattern] ELSE << >>
           IN  /\ listed = SelectSeq(LinesOf(userInput), Compound)
               /\ \A k \in 1..Len(listed) : listed[k] # <<"a", "b", "c", "d", "e", "f", "g", "h">>
               /\ (/\ PasswordPattern \in DOMAIN compiled
                   /\ MatchString(compiled[PasswordPattern], <<"A", "b", "c", "d", "1", "2", "3", "4", "!">>)
                   /\ \E j \in 1..Len(LinesOf(userInput)) : LinesOf(userInput)[j] = <<"A", "b", "c", "d", "1", "2", "3", "4", "!">>)
                    => \E k \in 1..Len(listed) : listed[k] = <<"A", "b", "c", "d", "1", "2", "3", "4", "!">>

C28_Witness ==
    /\ patpc = "matched"
    /\ matchMode = "FindAllStringSubmatch"
    /\ LinesOf(userInput) = <<<<"a", "b", "c", "d", "e", "f", "g", "h">>, <<"A", "b", "c", "d", "1", "2", "3", "4", "!">>>>
    /\ PasswordPattern \in DOMAIN matches
    /\ matches[PasswordPattern] = <<<<"A", "b", "c", "d", "1", "2", "3", "4", "!">>>>

\* C29: LoadPatterns on a decodable file returns without error a set that
\* holds exactly the names whose expression compiled, each with its
\* expression, plus the reserved name with the fixed fallback expression
\* when its own expression did not compile; every other name with an invalid
\* expression is absent.
C29_InvalidExpressionsDropped ==
    /\ patpc = "failed" => decodeErr
    /\ patpc \notin {"load", "failed"} =>
         /\ \A n \in DOMAIN patternStrings :
              /\ Compiles(patternStrings[n]) =>
                   n \in DOMAIN compiled /\ compiled[n] = patternStrings[n]
              /\ (~Compiles(patternStrings[n]) /\ n = "Password Pattern") =>
                   n \in DOMAIN compiled /\ compiled[n] = "^[A-Za-z\\d]{8,}$"
              /\ (~Compiles(patternStrings[n]) /\ n # "Password Pattern") =>
                   n \notin DOMAIN compiled
         /\ DOMAIN compiled \subseteq DOMAIN patternStrings

C29_Witness ==
    /\ patpc = "match"
    /\ DOMAIN patternStrings = Names
    /\ DOMAIN compiled = {"Password Pattern", "Generic"}
    /\ compiled["Password Pattern"] = "^[A-Za-z\\d]{8,}$"
    /\ patternStrings["Password Pattern"] = Lookahead

\* The entries of seq that stem from the ref r.
EntriesOf(seq, r) == {k \in 1..Len(seq) : RefOf(seq[k]) = r}

\* The listed occurrences that carry the ref r.
OccurrencesOf(r) == {k \in Listed : RefOf(k) = r}

\* C30: a ref that the listing yields more than once is fetched once per
\* occurrence and, when its fetches succeed, has one entry per occurrence in
\* the result: the collector does not deduplicate.
C30_DuplicatesKept ==
    (Returned /\ retErr = "nil" /\ threads >= 1) =>
        \A r \in Refs \ (failing \cup undecodable) :
            /\ \A k \in OccurrencesOf(r) : fetched[k] = 1
            /\ Cardinality(EntriesOf(retVal, r)) = Cardinality(OccurrencesOf(r))

C30_Witness ==
    /\ Returned
    /\ retErr = "nil"
    /\ collector = "FetchCodeBuildProjects"
    /\ Cardinality(OccurrencesOf(1)) = 2
    /\ \A k \in OccurrencesOf(1) : fetched[k] = 1
    /\ Cardinality(EntriesOf(retVal, 1)) = 2

\* A goroutine that has not finished: the feeder short of its return, a
\* worker short of wg.Done().
Unfinished ==
    \/ fpc \notin {"none", "done"}
    \/ \E w \in Workers : wpc[w] \notin {"none", "done"}

\* C31 (the claim as stated): FetchLaunchTemplates with threads >= 1 always
\* returns, and no worker or feeder stays blocked on errChan or on the job
\* channel: whenever no goroutine can take a step any more, the call has
\* returned and the feeder and every worker have finished.
C31_LaunchTemplatesAlwaysReturn ==
    (collector = "FetchLaunchTemplates" /\ threads >= 1 /\ Halted) =>
        /\ Returned
        /\ ~Unfinished

\* C32 (the claim as stated): when a semaphore collector has returned a
\* listing error, every goroutine it started has finished: no detail call is
\* in flight and none is left to append to the result.
C32_NoWorkerAfterListingError ==
    (~UsesJobChan(collector) /\ threads >= 1 /\ Returned /\ retErr = "page") =>
        /\ InFlight = {}
        /\ \A w \in Workers : wpc[w] \in {"none", "done"}

\* C33: in the worker-pool collectors with threads >= 1 the error the feeder
\* met (a failed page, a cancelled context) is never lost: once the caller
\* is past wg.Wait() the feeder has sent it, and the call returns that error
\* with a nil slice, under every interleaving.
C33_FeederErrorNotLost ==
    (collector = "FetchInstances" /\ threads >= 1) =>
        /\ (mpc \in {"select", "returned"}) => fpc = "done"
        /\ (mpc = "select" /\ ferr # "nil") => errChan = <<ferr>>
        /\ (Returned /\ ferr # "nil") => (retErr = ferr /\ retVal = << >>)

C33_Witness ==
    /\ collector = "FetchInstances"
    /\ threads >= 1
    /\ Returned
    /\ ferr = "ctx"
    /\ retErr = "ctx"
    /\ Len(results) >= 1
    /\ retVal = << >>

\* C34 (the claim as stated): every listing that was collected without an
\* enumeration error is matched and reported; when processServices has
\* returned, the stacks collected before a failed stack-set listing have been
\* reported.
C34_CollectedIsReported ==
    ppc = "returned" => collected \subseteq reported

\* The bytes of e that are no asterisk: what e shows in the clear.
Clear(e) == {k \in 1..Len(e) : e[k] # "*"}

\* e discloses at most the first visibleChars bytes of m.
Redacted(e, m) ==
    /\ Cardinality(Clear(e)) <= visibleChars
    /\ \A k \in Clear(e) : \E j \in 1..Min(visibleChars, Len(m)) : m[j] = e[k]

\* C35 (the claim as stated): with show false, whatever text of a resource
\* is printed discloses at most its first 4 characters, the parameter values
\* of a stack set whose template matched included.
C35_NothingVerbatim ==
    (~showContent /\ fmtpc # "start") =>
        /\ Redacted(emitted, match)
        /\ \A k \in 1..Len(printed) :
             /\ printed[k].label = "Matched Data: " => Redacted(printed[k].text, match)
             /\ printed[k].label = "  " =>
                  \E p \in {stackSet.Parameters[j] : j \in 1..Len(stackSet.Parameters)} :
                     LET n == Len(p.ParameterKey) + 2
                     IN  /\ Len(printed[k].text) >= n
                         /\ SubSeq(printed[k].text, 1, n) = p.ParameterKey \o <<":", " ">>
                         /\ Redacted(SubSeq(printed[k].text, n + 1, Len(printed[k].text)),
                                     p.ParameterValue)

\* The backoff of a loop whose every attempt is throttled.
FullBackoff == <<1, 2, 4, 8, 16>>

\* C36: when every attempt is throttled, a sleep follows each of the 5
\* attempts, the last one included: the sleeps are 1, 2, 4, 8 and 16 seconds
\* in this order, the failure is reported only after the 16-second sleep,
\* and no attempt follows that sleep.
C36_SleepAfterLastAttempt ==
    AlwaysThrottled =>
        /\ Len(sleeps) <= 5
        /\ sleeps = SubSeq(FullBackoff, 1, Len(sleeps))
        /\ Len(sleeps) = (IF rpc \in {"call", "failfast"} THEN attempts - 1 ELSE attempts)
        /\ result # "pending" =>
             (result = "maxretries" /\ sleeps = FullBackoff /\ attempts = 5)
        /\ sleeps = FullBackoff => (attempts = 5 /\ rpc \in {"sleep", "loop", "done"})
        /\ RetryHalted => result = "maxretries"

C36_Witness ==
    /\ AlwaysThrottled
    /\ result = "maxretries"
    /\ sleeps = <<1, 2, 4, 8, 16>>
    /\ attempts = 5
    /\ iRetry = 5

\* LoadPatterns replaced the expression of the reserved name: the file gave
\* one that does not compile.
FallbackInUse ==
    /\ PasswordPattern \in DOMAIN patternStrings
    /\ ~Compiles(patternStrings[PasswordPattern])

\* C37: when the reserved pattern was replaced by the fallback expression,
\* the base expression matches only strings of letters and digits, so no
\* line passes the compound validator, and MatchPatterns returns no list
\* under the reserved name, for any text and any mode, on the first run and
\* on a run over a returned string.
C37_FallbackNeverMatches ==
    (patpc \in {"matched", "rematched"} /\ FallbackInUse) =>
        /\ PasswordPattern \in DOMAIN compiled
        /\ \A j \in 1..Len(LinesOf(userInput)) :
             /\ MatchString(compiled[PasswordPattern], LinesOf(userInput)[j])
                  => ~Has(LinesOf(userInput)[j], Special)
             /\ ~ValidatePassword(compiled, LinesOf(userInput)[j])
        /\ PasswordPattern \notin DOMAIN matches
        /\ patpc = "rematched" => PasswordPattern \notin DOMAIN rematches

C37_Witness ==
    /\ patpc = "matched"
    /\ FallbackInUse
    /\ \E j \in 1..Len(LinesOf(userInput)) :
         LinesOf(userInput)[j] = <<"A", "b", "c", "d", "1", "2", "3", "4">>
    /\ \E j \in 1..Len(LinesOf(userInput)) :
         LinesOf(userInput)[j] = <<"A", "b", "c", "d", "1", "2", "3", "4", "!">>
    /\ PasswordPattern \notin DOMAIN matches

\* The versions of function f that the returned slice holds, in its order.
RecordedVersions(f) ==
    LET mine == SelectSeq(lamRetVal, LAMBDA e : e[1] = f)
    IN  [k \in 1..Len(mine) |-> mine[k][2]]

\* The versions of f whose GetFunction call succeeds, the latest first.
FetchableVersions(f) ==
    SelectSeq([k \in 1..lamVersions |-> lamVersions + 1 - k], LAMBDA v : v \notin getFails[f])

\* C38: when FetchLambdaFunctions has listed its functions it returns a nil
\* error, whatever fails for a function; a function whose version listing
\* fails on some page has no entry at all, also when earlier pages were
\* listed; any other function has one entry for each of its versions whose
\* GetFunction call succeeds, and none for the others.
C38_LambdaFailuresSkipped ==
    (lmpc = "returned" /\ ~lamListErr) =>
        /\ lamRetErr = "nil"
        /\ \A f \in Functions :
             RecordedVersions(f) =
                 (IF verErrPage[f] # 0 THEN << >> ELSE FetchableVersions(f))

C38_Witness ==
    /\ lmpc = "returned"
    /\ lamRetErr = "nil"
    /\ lamVersions = 3
    /\ verErrPage = <<2, 0>>
    /\ getFails[2] = {2}
    /\ vpage[1] = 1
    /\ RecordedVersions(1) = << >>
    /\ RecordedVersions(2) = <<3, 1>>

\* Every remote call made for cluster c succeeds: the step listing, the
\* bootstrap-action listing and the download of each script that lies in S3.
AllCallsSucceed(c) ==
    /\ failAt[c] \notin {1, 2}
    /\ \A k \in 1..Len(emrScripts) : emrScripts[k] = "s3" => failAt[c] # 2 + k

\* The clusters among the first n of the listing all of whose calls
\* succeed, in listing order.
GoodClusters(n) == SelectSeq([c \in 1..n |-> c], AllCallsSucceed)

\* C39: FetchEMRClusters records a cluster iff its step listing, its
\* bootstrap-action listing and every download of an S3 script succeed; a
\* failing cluster is skipped whole and the enumeration goes on, so at any
\* time the slice holds, in listing order, the good clusters among those
\* processed, each with one content per bootstrap action, and a call that
\* lists every page returns them with a nil error.
C39_ClusterRecordedIffAllSucceed ==
    (epc # "idle") =>
        /\ [k \in 1..Len(clusters) |-> clusters[k].ClusterID] = GoodClusters(eidx - 1)
        /\ \A k \in 1..Len(clusters) :
             Len(clusters[k].BootstrapScriptContents) = Len(emrScripts)
        /\ (epc = "returned" /\ emrErrPage = 0) =>
             /\ emrRetErr = "nil"
             /\ eidx = emrClusters + 1
             /\ emrRetVal = clusters

C39_Witness ==
    /\ epc = "returned"
    /\ emrRetErr = "nil"
    /\ emrClusters = 2
    /\ emrScripts = <<"local", "s3">>
    /\ failAt = <<4, 3>>
    /\ Len(emrRetVal) = 1
    /\ emrRetVal[1].ClusterID = 2

\* C40: in FetchSageMakerProcessingJobs totalJobs is the number of jobs
\* handed to a goroutine and successfulJobs the number of entries appended,
\* so successfulJobs <= totalJobs throughout; when the call returns a nil
\* error they are the number of jobs listed and the number of entries
\* returned.  successfulJobs is changed only by a goroutine that holds mu,
\* totalJobs only by the calling goroutine in its listing loop.
C40_CountersAgree ==
    [][Counts(collector) =>
          /\ totalJobs' = idx' - 1
          /\ successfulJobs' = Len(results')
          /\ successfulJobs' <= totalJobs'
          /\ (mpc' = "returned" /\ retErr' = "nil") =>
               (totalJobs' = nItems /\ successfulJobs' = Len(retVal'))
          /\ successfulJobs' # successfulJobs =>
               (mu # 0 /\ wpc[mu] = "locked" /\ wpc'[mu] # "locked" /\ mpc' = mpc)
          /\ totalJobs' # totalJobs => (mpc = "spawn" /\ mu' = mu)]_vars

C40_Witness ==
    /\ Counts(collector)
    /\ Returned
    /\ retErr = "nil"
    /\ threads = 2
    /\ nItems = 3
    /\ totalJobs = 3
    /\ successfulJobs = 1
    /\ Len(retVal) = 1
====
